---- MODULE Spec2Model ----
(***************************************************************************)
(* A model of the bot-to-bot voice simulation harness:                     *)
(*   - SimulationTracer (tracing.py): per-turn event recording, latency    *)
(*     metrics and the summary;                                            *)
(*   - the bot process of simulation.py: frame handlers, the goal monitor, *)
(*     the stop-condition poller and the finalization block of main();     *)
(*   - the operator's stop_simulation of app.py and the stop markers;      *)
(*   - GoalDetector.check_goal_met (goal_detector.py);                     *)
(*   - the summary aggregation of SimpleLLMJudge.evaluate_simulation       *)
(*     (llm_judge.py).                                                     *)
(* Timestamps are integers (clock ticks); a Python float mean sum/n is     *)
(* kept as the fraction [num, den].  Event metadata and message texts are  *)
(* not modelled: no modelled decision reads them.                          *)
(***************************************************************************)
EXTENDS Integers, Sequences, FiniteSets, TLC

VARIABLES
    tracer,              \* the process's SimulationTracer instance
    now,                 \* time.time(), in clock ticks
    audio_out_recorded,  \* AudioOutputTracker._audio_out_recorded_for_turn
    summary,             \* outcome of the last get_summary() call
    threads,             \* per thread: the tracer call it is executing
    lock,                \* holder of SimulationTracer.lock, or Free
    allocated,           \* the ids _get_turn_id returned, in return order
    calls_started,       \* tracer calls begun by the threads so far
    judge,               \* one run of SimpleLLMJudge.evaluate_simulation
    proc,                \* the bot process: where main() is, its stop flags
    monitor,             \* the OutputTranscriptTracker's goal-monitor fields
    transcript,          \* main()'s transcript list
    fs,                  \* the simulation folder: markers, logs, transcripts
    hist,                \* history of the goal monitor's judgment calls
    operator,            \* the control panel's session state
    peer,                \* the second bot process, as far as stopping goes
    handler              \* OutputTranscriptTracker.process_frame: where it is

tracerVars == <<tracer, now, audio_out_recorded, summary>>
threadVars == <<threads, lock, allocated, calls_started>>

botVars ==
    <<proc, monitor, transcript, fs, hist, operator, peer, handler>>

vars == <<tracerVars, threadVars, judge, botVars>>

----------------------------------------------------------------------------
(* Bounds of the model.                                                    *)

\* longest event log explored by the tracer specifications
MaxEvents == 5
\* largest clock value the Tick action reaches
MaxClock == 1
\* number of turns replayed into the tracer before get_summary is applied
MaxSummaryTurns == 3
\* number of tracer calls the concurrent threads make in all
MaxThreadCalls == 3
\* longest criteria list given to evaluate_simulation
MaxCriteria == 3
\* number of TTS text frames the bot process handles
MaxTurnCount == 6
\* number of transcription frames the bot process's TurnTracker receives
MaxTranscriptions == 2
\* number of pieces of a scoring response
MaxResponseLen == 3
\* number of entries of a transcript file given to the merge
MaxEntries == 2
\* the latest second of a transcript entry given to the merge
MaxStamp == 2
\* number of times the merge is run on the same files
MaxMergeRuns == 2

----------------------------------------------------------------------------
(* tracing.py: values and types.                                           *)

\* Python's None, for an Optional[float] (a latency, a timestamp, a mean)
None == -1

\* current_turn_id = None
NoTurn == <<>>

\* MetricType
MetricType ==
    {"vad_start", "vad_end", "stt_start", "stt_end", "llm_start",
     "llm_first_token", "llm_end", "tts_start", "tts_first_token", "tts_end",
     "audio_out_start", "turn_start", "turn_end"}

\* the event types the record_* methods record
RecordTypes == MetricType \ {"turn_start", "turn_end"}

\* f"turn_{self.turn_counter}_{int(time.time() * 1000)}"
TurnIdOf(counter, ms) == <<counter, ms>>

\* SimulationTracer.__init__
NewTracer ==
    [events |-> <<>>,
     current_turn_id |-> NoTurn,
     turn_counter |-> 0,
     first_llm_token_timestamp |-> None,
     first_spoken_token_timestamp |-> None,
     turn_events |-> <<>>]

\* MetricEvent (bot_name is the tracer's constant name, metadata is opaque)
MetricEvent(event_type, ts, turn_id) ==
    [event_type |-> event_type, timestamp |-> ts, turn_id |-> turn_id]

\* a mapping that keeps the first timestamp of an event kind
PutEventKeepingFirst(turn_events, turn_id, event_type, ts) ==
    LET old == IF turn_id \in DOMAIN turn_events
               THEN turn_events[turn_id] ELSE <<>>
        new == [k \in (DOMAIN old) \cup {event_type} |->
                    IF k \in DOMAIN old THEN old[k] ELSE ts]
    IN  [t \in (DOMAIN turn_events) \cup {turn_id} |->
            IF t = turn_id THEN new ELSE turn_events[t]]

\* self.turn_events[turn_id][event_type] = event.timestamp
PutEvent(turn_events, turn_id, event_type, ts) ==
    LET old == IF turn_id \in DOMAIN turn_events
               THEN turn_events[turn_id] ELSE <<>>
        new == [k \in (DOMAIN old) \cup {event_type} |->
                    IF k = event_type THEN ts ELSE old[k]]
    IN  [t \in (DOMAIN turn_events) \cup {turn_id} |->
            IF t = turn_id THEN new ELSE turn_events[t]]

\* _record_event that appends its event to the log twice
RecordEventTwice(tr, event_type, turn_id, ts) ==
    LET inherited == IF turn_id = NoTurn THEN tr.current_turn_id ELSE turn_id
        fresh == inherited = NoTurn
        counter == IF fresh THEN tr.turn_counter + 1 ELSE tr.turn_counter
        tid == IF fresh THEN TurnIdOf(counter, ts) ELSE inherited
    IN  [tr EXCEPT
            !.turn_counter = counter,
            !.current_turn_id = IF fresh THEN tid ELSE @,
            !.events = Append(Append(@, MetricEvent(event_type, ts, tid)),
                              MetricEvent(event_type, ts, tid)),
            !.turn_events = PutEvent(@, tid, event_type, ts),
            !.first_llm_token_timestamp =
                IF event_type = "llm_first_token" /\ @ = None THEN ts ELSE @,
            !.first_spoken_token_timestamp =
                IF event_type = "tts_first_token" /\ @ = None THEN ts ELSE @]

\* _record_event that does not keep the turn it generates as current
RecordEventNotOpening(tr, event_type, turn_id, ts) ==
    LET inherited == IF turn_id = NoTurn THEN tr.current_turn_id ELSE turn_id
        fresh == inherited = NoTurn
        counter == IF fresh THEN tr.turn_counter + 1 ELSE tr.turn_counter
        tid == IF fresh THEN TurnIdOf(counter, ts) ELSE inherited
    IN  [tr EXCEPT
            !.turn_counter = counter,
            !.events = Append(@, MetricEvent(event_type, ts, tid)),
            !.turn_events = PutEvent(@, tid, event_type, ts),
            !.first_llm_token_timestamp =
                IF event_type = "llm_first_token" /\ @ = None THEN ts ELSE @,
            !.first_spoken_token_timestamp =
                IF event_type = "tts_first_token" /\ @ = None THEN ts ELSE @]

\* SimulationTracer._record_event, the body run under self.lock.  turn_id is
\* NoTurn when the caller passes none.
RecordEvent(tr, event_type, turn_id, ts) ==
    LET inherited == IF turn_id = NoTurn THEN tr.current_turn_id ELSE turn_id
        fresh == inherited = NoTurn
        counter == IF fresh THEN tr.turn_counter + 1 ELSE tr.turn_counter
        tid == IF fresh THEN TurnIdOf(counter, ts) ELSE inherited
    IN  [tr EXCEPT
            !.turn_counter = counter,
            !.current_turn_id = IF fresh THEN tid ELSE @,
            !.events = Append(@, MetricEvent(event_type, ts, tid)),
            !.turn_events = PutEvent(@, tid, event_type, ts),
            !.first_llm_token_timestamp =
                IF event_type = "llm_first_token" /\ @ = None THEN ts ELSE @,
            !.first_spoken_token_timestamp =
                IF event_type = "tts_first_token" /\ @ = None THEN ts ELSE @]

\* SimulationTracer.start_turn, run without interruption
StartTurn(tr, ts) ==
    LET turn_id == TurnIdOf(tr.turn_counter + 1, ts)
        tr1 == [tr EXCEPT !.turn_counter = @ + 1,
                          !.current_turn_id = turn_id]
    IN  RecordEvent(tr1, "turn_start", turn_id, ts)

\* SimulationTracer.end_turn, run without interruption
EndTurn(tr, ts) ==
    IF tr.current_turn_id # NoTurn
    THEN [RecordEvent(tr, "turn_end", tr.current_turn_id, ts)
            EXCEPT !.current_turn_id = NoTurn]
    ELSE tr

\* a latency that is 0 when an event of the pair is missing
LatencyOrZero(events, start_type, end_type) ==
    IF start_type \in DOMAIN events /\ end_type \in DOMAIN events
    THEN events[end_type] - events[start_type]
    ELSE 0

\* one latency of _calculate_turn_metrics: end - start when both event types
\* are in the turn's mapping, else the field keeps its default None
Latency(events, start_type, end_type) ==
    IF start_type \in DOMAIN events /\ end_type \in DOMAIN events
    THEN events[end_type] - events[start_type]
    ELSE None

\* SimulationTracer._calculate_turn_metrics for a turn in turn_events
CalculateTurnMetrics(tr, turn_id) ==
    LET events == tr.turn_events[turn_id]
    IN  [turn_id |-> turn_id,
         vad_latency |-> Latency(events, "vad_start", "vad_end"),
         stt_latency |-> Latency(events, "stt_start", "stt_end"),
         llm_latency |-> Latency(events, "llm_start", "llm_end"),
         llm_first_token_latency |->
             Latency(events, "llm_start", "llm_first_token"),
         tts_latency |-> Latency(events, "tts_start", "tts_end"),
         tts_first_token_latency |->
             Latency(events, "tts_start", "tts_first_token"),
         end_to_end_latency |->
             Latency(events, "vad_start", "audio_out_start"),
         turn_duration |-> Latency(events, "turn_start", "turn_end"),
         first_llm_token_timestamp |->
             IF "llm_start" \in DOMAIN events
                /\ "llm_first_token" \in DOMAIN events
             THEN events["llm_first_token"] ELSE None,
         first_spoken_token_timestamp |->
             IF "tts_start" \in DOMAIN events
                /\ "tts_first_token" \in DOMAIN events
             THEN events["tts_first_token"] ELSE None]

\* the latency kinds get_summary averages
AveragedLatencies ==
    {"vad_latency", "stt_latency", "llm_latency", "tts_latency",
     "end_to_end_latency"}

\* the turns get_summary takes as completed
CompletedTurns(tr) ==
    {t \in DOMAIN tr.turn_events : "turn_end" \in DOMAIN tr.turn_events[t]}

\* Python truthiness of an Optional[float]: `if m.get(kind)`
Truthy(x) == x # None /\ x # 0

\* sum(m.get(kind, 0) or 0 for m in all_metrics)
RECURSIVE SumLatency(_, _, _)
SumLatency(tr, turns, kind) ==
    IF turns = {} THEN 0
    ELSE LET t == CHOOSE x \in turns : TRUE
             v == CalculateTurnMetrics(tr, t)[kind]
         IN  (IF Truthy(v) THEN v ELSE 0) + SumLatency(tr, turns \ {t}, kind)

\* len([m for m in all_metrics if m.get(kind)])
CountLatency(tr, turns, kind) ==
    Cardinality({t \in turns : Truthy(CalculateTurnMetrics(tr, t)[kind])})

\* SimulationTracer.get_summary.  raised: the call ended in ZeroDivisionError.
\* A mean is the fraction num/den; with no completed turn every mean is None.
\* turn_metrics is keyed by turn id (the list's order is not modelled).
GetSummary(tr) ==
    LET turns == CompletedTurns(tr)
        den(kind) == CountLatency(tr, turns, kind)
    IN  IF turns # {} /\ \E kind \in AveragedLatencies : den(kind) = 0
        THEN [raised |-> TRUE]
        ELSE [raised |-> FALSE,
              total_events |-> Len(tr.events),
              total_turns |-> Cardinality(turns),
              first_llm_token_timestamp |-> tr.first_llm_token_timestamp,
              first_spoken_token_timestamp |->
                  tr.first_spoken_token_timestamp,
              average_latencies |->
                  [kind \in AveragedLatencies |->
                      IF turns = {} THEN [num |-> None, den |-> 1]
                      ELSE [num |-> SumLatency(tr, turns, kind),
                            den |-> den(kind)]],
              turn_metrics |->
                  [t \in turns |-> CalculateTurnMetrics(tr, t)]]

\* no get_summary call has been made yet
NotCalled == [raised |-> FALSE, total_events |-> None]

----------------------------------------------------------------------------
(* Tracer calls replayed to build the inputs of get_summary.               *)

\* one call of the tracer's interface
Call(op, event_type, ts) == [op |-> op, event_type |-> event_type, ts |-> ts]

\* the tracer after one call
ApplyCall(tr, c) ==
    CASE c.op = "start_turn" -> StartTurn(tr, c.ts)
      [] c.op = "end_turn" -> EndTurn(tr, c.ts)
      [] OTHER -> RecordEvent(tr, c.event_type, NoTurn, c.ts)

\* the tracer after a sequence of calls
RECURSIVE Replay(_, _)
Replay(tr, calls) ==
    IF calls = <<>> THEN tr
    ELSE Replay(ApplyCall(tr, Head(calls)), Tail(calls))

\* what one replayed turn looks like: its speech latency (None: speech end
\* never recorded), the latency of its other stages (their first tokens come
\* one tick after the start), and whether it is ended
TurnShapes == [vad : {None, 0, 2, 4}, rest : {None, 2}, ended : BOOLEAN]

\* the calls of one turn that starts at clock value b
TurnCalls(b, s) ==
    LET vadEnd == IF s.vad = None THEN <<>>
                  ELSE <<Call("record", "vad_end", b + s.vad)>>
        restEnd == IF s.rest = None THEN <<>>
                   ELSE <<Call("record", "stt_end", b + s.rest),
                          Call("record", "llm_end", b + s.rest),
                          Call("record", "tts_end", b + s.rest),
                          Call("record", "audio_out_start", b + s.rest)>>
        firsts == IF s.rest = None THEN <<>>
                  ELSE <<Call("record", "llm_first_token", b + 1),
                         Call("record", "tts_first_token", b + 1)>>
    IN  <<Call("start_turn", "turn_start", b),
          Call("record", "vad_start", b),
          Call("record", "stt_start", b),
          Call("record", "llm_start", b),
          Call("record", "tts_start", b)>>
        \o (IF s.vad # None /\ s.vad < 1
            THEN vadEnd \o firsts \o restEnd
            ELSE IF s.vad # None /\ s.rest # None /\ s.vad > s.rest
            THEN firsts \o restEnd \o vadEnd
            ELSE firsts \o vadEnd \o restEnd)
        \o (IF s.ended THEN <<Call("end_turn", "turn_end", b + 4)>>
            ELSE <<>>)

\* the calls of the turns shapes[1], shapes[2], ... one after the other
RECURSIVE SessionCalls(_, _)
SessionCalls(shapes, i) ==
    IF i > Len(shapes) THEN <<>>
    ELSE TurnCalls(5 * (i - 1), shapes[i]) \o SessionCalls(shapes, i + 1)

----------------------------------------------------------------------------
(* Actions on the tracer.                                                  *)

\* the event types the tracer specification records through record_*
TracedTypes == {"llm_start", "llm_end"}

\* time passes
Tick ==
    /\ now < MaxClock
    /\ now' = now + 1
    /\ UNCHANGED <<tracer, audio_out_recorded, summary>>
    /\ UNCHANGED <<threadVars, judge, botVars>>

\* tracer.start_turn()
StartTurnCall ==
    /\ Len(tracer.events) < MaxEvents
    /\ tracer' = StartTurn(tracer, now)
    /\ UNCHANGED <<now, audio_out_recorded, summary>>
    /\ UNCHANGED <<threadVars, judge, botVars>>

\* tracer.end_turn()
EndTurnCall ==
    /\ Len(tracer.events) < MaxEvents
    /\ tracer' = EndTurn(tracer, now)
    /\ UNCHANGED <<now, audio_out_recorded, summary>>
    /\ UNCHANGED <<threadVars, judge, botVars>>

\* tracer.record_<type>()
RecordCall ==
    /\ Len(tracer.events) < MaxEvents
    /\ \E event_type \in TracedTypes :
          tracer' = RecordEvent(tracer, event_type, NoTurn, now)
    /\ UNCHANGED <<now, audio_out_recorded, summary>>
    /\ UNCHANGED <<threadVars, judge, botVars>>

\* the on_speech_started handler of the VAD analyzer
OnSpeechStarted ==
    /\ Len(tracer.events) + 3 <= MaxEvents
    /\ tracer' = RecordEvent(
                     RecordEvent(StartTurn(tracer, now),
                                 "vad_start", NoTurn, now),
                     "stt_start", NoTurn, now)
    /\ UNCHANGED <<now, audio_out_recorded, summary>>
    /\ UNCHANGED <<threadVars, judge, botVars>>

\* TurnTracker.process_frame on a TranscriptionFrame of another participant
TurnTrackerFrame ==
    /\ Len(tracer.events) + 2 <= MaxEvents
    /\ tracer' = StartTurn(EndTurn(tracer, now), now)
    /\ audio_out_recorded' = {}
    /\ UNCHANGED <<now, summary>>
    /\ UNCHANGED <<threadVars, judge, botVars>>

\* AudioOutputTracker.process_frame on an AudioRawFrame or TTSStartedFrame
AudioOutputFrame ==
    /\ Len(tracer.events) < MaxEvents
    /\ IF tracer.current_turn_id # NoTurn
          /\ tracer.current_turn_id \notin audio_out_recorded
       THEN /\ tracer' = RecordEvent(tracer, "audio_out_start", NoTurn, now)
            /\ audio_out_recorded' =
                   audio_out_recorded \cup {tracer.current_turn_id}
       ELSE UNCHANGED <<tracer, audio_out_recorded>>
    /\ UNCHANGED <<now, summary>>
    /\ UNCHANGED <<threadVars, judge, botVars>>

\* tracer.get_summary()
GetSummaryCall ==
    /\ summary' = GetSummary(tracer)
    /\ UNCHANGED <<tracer, now, audio_out_recorded>>
    /\ UNCHANGED <<threadVars, judge, botVars>>


----------------------------------------------------------------------------
(* The tracer's methods called from concurrent threads.  A step is one     *)
(* read or write of an attribute of the tracer; the lock serializes only   *)
(* the bodies of _record_event.                                            *)

Threads == {"t1", "t2"}

\* self.lock is not held
Free == "free"

\* a thread outside any tracer call
IdleThread == [pc |-> "idle", op |-> "none", event_type |-> "none",
               turn_id |-> NoTurn, r |-> 0]

\* a thread enters start_turn, end_turn or record_<type>
BeginCall(t) ==
    /\ threads[t].pc = "idle"
    /\ calls_started < MaxThreadCalls
    /\ calls_started' = calls_started + 1
    /\ \/ threads' = [threads EXCEPT ![t] =
              [IdleThread EXCEPT !.pc = "st_read", !.op = "start_turn",
                                 !.event_type = "turn_start"]]
       \/ threads' = [threads EXCEPT ![t] =
              [IdleThread EXCEPT !.pc = "et_test", !.op = "end_turn",
                                 !.event_type = "turn_end"]]
       \/ \E event_type \in TracedTypes :
             threads' = [threads EXCEPT ![t] =
                 [IdleThread EXCEPT !.pc = "rec_lock", !.op = "record",
                                    !.event_type = event_type]]
    /\ UNCHANGED <<tracerVars, lock, allocated, judge, botVars>>

\* _get_turn_id: the read of self.turn_counter in `self.turn_counter += 1`
GetIdRead(t) ==
    /\ threads[t].pc \in {"st_read", "rec_read"}
    /\ threads' = [threads EXCEPT
          ![t].r = tracer.turn_counter,
          ![t].pc = IF @ = "st_read" THEN "st_write" ELSE "rec_write"]
    /\ UNCHANGED <<tracerVars, lock, allocated, calls_started, judge,
                   botVars>>

\* _get_turn_id: the write of `self.turn_counter += 1`
GetIdWrite(t) ==
    /\ threads[t].pc \in {"st_write", "rec_write"}
    /\ tracer' = [tracer EXCEPT !.turn_counter = threads[t].r + 1]
    /\ threads' = [threads EXCEPT
          ![t].pc = IF @ = "st_write" THEN "st_ret" ELSE "rec_ret"]
    /\ UNCHANGED <<now, audio_out_recorded, summary, lock, allocated,
                   calls_started, judge, botVars>>

\* _get_turn_id: the return, which reads self.turn_counter again
GetIdReturn(t) ==
    /\ threads[t].pc \in {"st_ret", "rec_ret"}
    /\ LET id == TurnIdOf(tracer.turn_counter, now)
       IN  /\ threads' = [threads EXCEPT
                 ![t].turn_id = id,
                 ![t].pc = IF @ = "st_ret" THEN "st_set" ELSE "rec_set"]
           /\ allocated' = Append(allocated, id)
    /\ UNCHANGED <<tracerVars, lock, calls_started, judge, botVars>>

\* self.current_turn_id = turn_id, in start_turn and in _record_event
SetCurrent(t) ==
    /\ threads[t].pc \in {"st_set", "rec_set"}
    /\ tracer' = [tracer EXCEPT !.current_turn_id = threads[t].turn_id]
    /\ threads' = [threads EXCEPT
          ![t].pc = IF @ = "st_set" THEN "rec_lock" ELSE "rec_body"]
    /\ UNCHANGED <<now, audio_out_recorded, summary, lock, allocated,
                   calls_started, judge, botVars>>

\* _record_event: `with self.lock`
AcquireLock(t) ==
    /\ threads[t].pc = "rec_lock"
    /\ lock = Free
    /\ lock' = t
    /\ threads' = [threads EXCEPT ![t].pc = "rec_inherit"]
    /\ UNCHANGED <<tracerVars, allocated, calls_started, judge, botVars>>

\* _record_event: turn_id defaults to self.current_turn_id; a new id is
\* allocated when both are None
InheritTurn(t) ==
    /\ threads[t].pc = "rec_inherit"
    /\ LET turn_id == IF threads[t].turn_id = NoTurn
                      THEN tracer.current_turn_id ELSE threads[t].turn_id
       IN  threads' = [threads EXCEPT
               ![t].turn_id = turn_id,
               ![t].pc = IF turn_id = NoTurn THEN "rec_read" ELSE "rec_body"]
    /\ UNCHANGED <<tracerVars, lock, allocated, calls_started, judge,
                   botVars>>

\* _record_event: the event is appended and stored in turn_events, and the
\* lock is released
RecordBody(t) ==
    /\ threads[t].pc = "rec_body"
    /\ tracer' = RecordEvent(tracer, threads[t].event_type,
                             threads[t].turn_id, now)
    /\ lock' = Free
    /\ threads' = [threads EXCEPT
          ![t] = IF @.op = "end_turn"
                 THEN [@ EXCEPT !.pc = "et_clear"] ELSE IdleThread]
    /\ UNCHANGED <<now, audio_out_recorded, summary, allocated,
                   calls_started, judge, botVars>>

\* end_turn: `if self.current_turn_id:`
EndTurnTest(t) ==
    /\ threads[t].pc = "et_test"
    /\ threads' = [threads EXCEPT
          ![t] = IF tracer.current_turn_id # NoTurn
                 THEN [@ EXCEPT !.pc = "et_arg"] ELSE IdleThread]
    /\ UNCHANGED <<tracerVars, lock, allocated, calls_started, judge,
                   botVars>>

\* end_turn: the argument turn_id=self.current_turn_id is read
EndTurnArg(t) ==
    /\ threads[t].pc = "et_arg"
    /\ threads' = [threads EXCEPT ![t].turn_id = tracer.current_turn_id,
                                  ![t].pc = "rec_lock"]
    /\ UNCHANGED <<tracerVars, lock, allocated, calls_started, judge,
                   botVars>>

\* end_turn: self.current_turn_id = None (after _calculate_turn_metrics,
\* which only logs)
EndTurnClear(t) ==
    /\ threads[t].pc = "et_clear"
    /\ tracer' = [tracer EXCEPT !.current_turn_id = NoTurn]
    /\ threads' = [threads EXCEPT ![t] = IdleThread]
    /\ UNCHANGED <<now, audio_out_recorded, summary, lock, allocated,
                   calls_started, judge, botVars>>


----------------------------------------------------------------------------
(* llm_judge.py: SimpleLLMJudge.evaluate_simulation.                       *)

\* a score as json.loads gives it: a number, a boolean or None.  A Python
\* bool is an int (True is 1, False is 0): val is the value arithmetic uses.
IntScore(n) == [kind |-> "int", val |-> n]
BoolScore(b) == [kind |-> "bool", val |-> IF b THEN 1 ELSE 0]
NoScore == [kind |-> "none", val |-> 0]

StrScore == [kind |-> "str", val |-> 0]

\* the scores the judgment service returns in the model: numbers of the
\* scale, a number beyond it, booleans, null, a string
ScoreValues ==
    {IntScore(6), IntScore(8), IntScore(11), BoolScore(TRUE),
     BoolScore(FALSE), NoScore, StrScore}

\* isinstance(score, (int, float)): true of a bool, which is an int
IsIntOrFloat(score) == score.kind \in {"int", "bool"}

\* isinstance(score, bool)
IsBool(score) == score.kind = "bool"

\* [r["score"] for r in ... if isinstance(r["score"], (int, float))]
ScaleScores(scores) == SelectSeq(scores, IsIntOrFloat)

\* [r["score"] for r in ... if isinstance(r["score"], bool)]
BooleanScores(scores) == SelectSeq(scores, IsBool)

\* sum(scores)
RECURSIVE SumScores(_)
SumScores(scores) ==
    IF scores = <<>> THEN 0
    ELSE Head(scores).val + SumScores(Tail(scores))

\* n/d rounded to the nearest integer, a tie to the even one: round()
RoundDiv(n, d) ==
    LET q == n \div d
        r == n % d
    IN  IF 2 * r > d THEN q + 1
        ELSE IF 2 * r < d THEN q
        ELSE IF q % 2 = 0 THEN q ELSE q + 1

\* the summary of evaluate_simulation: average_scale_score in hundredths
\* (round(.., 2)), boolean_pass_rate in tenths of a percent (round(.., 1))
JudgeSummary(criteria, scores) ==
    LET scale_scores == ScaleScores(scores)
        boolean_scores == BooleanScores(scores)
    IN  [total_criteria |-> Len(criteria),
         scale_criteria_count |-> Len(scale_scores),
         boolean_criteria_count |-> Len(boolean_scores),
         average_scale_score |->
             IF scale_scores # <<>>
             THEN RoundDiv(100 * SumScores(scale_scores), Len(scale_scores))
             ELSE None,
         boolean_pass_rate |->
             IF boolean_scores # <<>>
             THEN RoundDiv(1000 * SumScores(boolean_scores),
                           Len(boolean_scores))
             ELSE None]

\* A response text of the judgment service, as a sequence of pieces: the
\* two braces, a "score" member with its value, a "reasoning" member, and
\* text that is no part of a JSON document.
LBrace == [ch |-> "{", score |-> NoScore]
RBrace == [ch |-> "}", score |-> NoScore]
Prose == [ch |-> "text", score |-> NoScore]
ReasoningMember == [ch |-> "reasoning", score |-> NoScore]
ScoreMember(score) == [ch |-> "score", score |-> score]

ResponsePieces ==
    {LBrace, RBrace, Prose, ReasoningMember}
        \cup {ScoreMember(score) : score \in ScoreValues}

\* str.find(piece): the first position, counted from 0, or -1
Find(text, piece) ==
    IF \E i \in 1..Len(text) : text[i] = piece
    THEN (CHOOSE i \in 1..Len(text) :
              /\ text[i] = piece
              /\ \A j \in 1..(i - 1) : text[j] # piece) - 1
    ELSE -1

\* str.rfind(piece): the last position, counted from 0, or -1
RFind(text, piece) ==
    IF \E i \in 1..Len(text) : text[i] = piece
    THEN (CHOOSE i \in 1..Len(text) :
              /\ text[i] = piece
              /\ \A j \in (i + 1)..Len(text) : text[j] # piece) - 1
    ELSE -1

\* text[start:end]
Slice(text, start, end) == SubSeq(text, start + 1, end)

\* json.loads of a text that starts with a brace: a document if the text is
\* one object of members, and then the object's "score" (of a repeated key
\* the last counts, of a missing one .get gives None) and its "reasoning";
\* anything else is a JSONDecodeError
JsonLoads(json_str) ==
    LET members == SubSeq(json_str, 2, Len(json_str) - 1)
        scores == SelectSeq(members, LAMBDA m : m.ch = "score")
    IN  IF /\ Len(json_str) >= 2
           /\ json_str[1] = LBrace
           /\ json_str[Len(json_str)] = RBrace
           /\ \A i \in 1..Len(members) :
                  members[i].ch \in {"score", "reasoning"}
        THEN [decode_error |-> FALSE,
              score |-> IF scores = <<>> THEN NoScore
                        ELSE scores[Len(scores)].score,
              reasoning |-> SelectSeq(members,
                                      LAMBDA m : m.ch = "reasoning")]
        ELSE [decode_error |-> TRUE]

\* the structured response evaluate_conversation falls back to
FallbackResult(response) ==
    [score |-> NoScore, reasoning |-> response,
     step_by_step_analysis |-> "Could not parse structured response"]

\* an extraction that ends at the first closing brace
EvaluateConversationFirstClose(response) ==
    LET json_start == Find(response, LBrace)
        json_end == Find(response, RBrace) + 1
    IN  IF json_start # -1 /\ json_end > json_start
        THEN LET result == JsonLoads(Slice(response, json_start, json_end))
             IN  IF result.decode_error THEN FallbackResult(response)
                 ELSE [score |-> result.score,
                       reasoning |-> result.reasoning,
                       step_by_step_analysis |-> ""]
        ELSE FallbackResult(response)

\* evaluate_conversation on the response _call_llm returned
EvaluateConversation(response) ==
    LET json_start == Find(response, LBrace)
        json_end == RFind(response, RBrace) + 1
    IN  IF json_start # -1 /\ json_end > json_start
        THEN LET result == JsonLoads(Slice(response, json_start, json_end))
             IN  IF result.decode_error THEN FallbackResult(response)
                 ELSE [score |-> result.score,
                       reasoning |-> result.reasoning,
                       step_by_step_analysis |-> ""]
        ELSE FallbackResult(response)

\* the scoring responses of a run of evaluate_simulation in the model: the
\* requested JSON document with each score, and an answer in prose
JudgeResponses ==
    {<<LBrace, ScoreMember(score), ReasoningMember, RBrace>> :
         score \in ScoreValues}
        \cup {<<Prose>>}

\* nothing written at output_path
NoArtifact == [written |-> FALSE]

\* what an earlier evaluation of the same simulation, of one scale
\* criterion, left at output_path
PreviousArtifact ==
    [written |-> TRUE,
     metadata |-> [evaluation_timestamp |-> 0],
     criteria_evaluations |-> <<IntScore(8)>>,
     summary |-> JudgeSummary(<<"scale">>, <<IntScore(8)>>)]

\* before evaluate_simulation is called
IdleJudge ==
    [pc |-> "idle", transcript |-> "ok", criteria |-> <<>>,
     criteria_evaluations |-> <<>>, summary |-> [total_criteria |-> None],
     artifact |-> NoArtifact, calls |-> <<>>]

\* evaluate_simulation up to the loop: the transcript is loaded; a missing
\* file or an empty message list raises
LoadTranscript ==
    /\ judge.pc = "idle"
    /\ judge' = [judge EXCEPT
          !.pc = IF judge.transcript = "ok" THEN "evaluating" ELSE "raised"]
    /\ UNCHANGED <<tracerVars, threadVars, botVars>>

\* the two judgment calls of the criterion at position i of the loop
StepsCall(i) == [criterion |-> i, prompt |-> "evaluation_steps"]
ScoringCall(i) == [criterion |-> i, prompt |-> "scoring"]

\* a loop that saves the results to output_path after every criterion
EvaluateCriterionSaving ==
    /\ judge.pc = "evaluating"
    /\ Len(judge.criteria_evaluations) < Len(judge.criteria)
    /\ LET i == Len(judge.criteria_evaluations) + 1
       IN  \/ judge' = [judge EXCEPT !.pc = "raised",
                                     !.calls = Append(@, StepsCall(i))]
           \/ judge' = [judge EXCEPT !.pc = "raised",
                                     !.calls = @ \o <<StepsCall(i),
                                                      ScoringCall(i)>>]
           \/ \E response \in JudgeResponses :
                 LET evaluation_result == EvaluateConversation(response)
                     results == Append(judge.criteria_evaluations,
                                       evaluation_result.score)
                 IN  judge' = [judge EXCEPT
                         !.calls = @ \o <<StepsCall(i), ScoringCall(i)>>,
                         !.criteria_evaluations = results,
                         !.artifact =
                             [written |-> TRUE,
                              metadata |-> [evaluation_timestamp |-> 1],
                              criteria_evaluations |-> results,
                              summary |-> JudgeSummary(judge.criteria,
                                                       results)]]
    /\ UNCHANGED <<tracerVars, threadVars, botVars>>

\* a loop that asks for the score before it asks for the steps
EvaluateCriterionScoringFirst ==
    /\ judge.pc = "evaluating"
    /\ Len(judge.criteria_evaluations) < Len(judge.criteria)
    /\ LET i == Len(judge.criteria_evaluations) + 1
       IN  \/ judge' = [judge EXCEPT !.pc = "raised",
                                     !.calls = Append(@, ScoringCall(i))]
           \/ judge' = [judge EXCEPT !.pc = "raised",
                                     !.calls = @ \o <<ScoringCall(i),
                                                      StepsCall(i)>>]
           \/ \E response \in JudgeResponses :
                 LET evaluation_result == EvaluateConversation(response)
                 IN  judge' = [judge EXCEPT
                         !.calls = @ \o <<ScoringCall(i), StepsCall(i)>>,
                         !.criteria_evaluations =
                             Append(@, evaluation_result.score)]
    /\ UNCHANGED <<tracerVars, threadVars, botVars>>

\* one pass of the loop over the criteria: generate_evaluation_steps, then
\* evaluate_conversation, then the result is appended.  Either judgment call
\* may raise (_call_llm re-raises), which ends evaluate_simulation.
EvaluateCriterion ==
    /\ judge.pc = "evaluating"
    /\ Len(judge.criteria_evaluations) < Len(judge.criteria)
    /\ LET i == Len(judge.criteria_evaluations) + 1
       IN  \/ judge' = [judge EXCEPT !.pc = "raised",
                                     !.calls = Append(@, StepsCall(i))]
           \/ judge' = [judge EXCEPT !.pc = "raised",
                                     !.calls = @ \o <<StepsCall(i),
                                                      ScoringCall(i)>>]
           \/ \E response \in JudgeResponses :
                 LET evaluation_result == EvaluateConversation(response)
                 IN  judge' = [judge EXCEPT
                         !.calls = @ \o <<StepsCall(i), ScoringCall(i)>>,
                         !.criteria_evaluations =
                             Append(@, evaluation_result.score)]
    /\ UNCHANGED <<tracerVars, threadVars, botVars>>

\* after the loop: the summary is computed and the results are written to
\* output_path
FinishEvaluation ==
    /\ judge.pc = "evaluating"
    /\ Len(judge.criteria_evaluations) = Len(judge.criteria)
    /\ LET s == JudgeSummary(judge.criteria, judge.criteria_evaluations)
       IN  judge' = [judge EXCEPT
               !.pc = "done",
               !.summary = s,
               !.artifact = [written |-> TRUE,
                             metadata |-> [evaluation_timestamp |-> 1],
                             criteria_evaluations |->
                                 judge.criteria_evaluations,
                             summary |-> s]]
    /\ UNCHANGED <<tracerVars, threadVars, botVars>>


\* evaluate_conversation from the return of _call_llm on: the response is
\* parsed into the evaluation result
EvaluateConversationCall ==
    /\ judge.pc = "scoring"
    /\ judge' = [judge EXCEPT
          !.pc = "scored",
          !.result = EvaluateConversation(judge.response)]
    /\ UNCHANGED <<tracerVars, threadVars, botVars>>

----------------------------------------------------------------------------
(* goal_detector.py: GoalDetector.check_goal_met.  A confidence is kept in *)
(* hundredths.                                                             *)

\* the confidences the judgment service answers with in the model
ConfidenceLevels == {70, 71}

\* what the judgment service does on one call: it answers with a JSON object
\* holding goal_met and confidence, or the call fails, or the answer is not
\* JSON
ServiceResponses ==
    [kind : {"ok"}, goal_met : BOOLEAN, confidence : ConfidenceLevels]
    \cup [kind : {"call_error", "malformed_json"},
          goal_met : {FALSE}, confidence : {0}]

\* the branch of check_goal_met's try block that returns
GoalResult(response) ==
    [raised |-> FALSE,
     goal_met |-> response.goal_met,
     confidence |-> response.confidence,
     reasoning |-> <<"reasoning">>]

\* the except branch of check_goal_met: not met, with the failure text
GoalError(response) ==
    [raised |-> FALSE,
     goal_met |-> FALSE,
     confidence |-> 0,
     reasoning |-> <<"Error during detection: ", response.kind>>]

\* check_goal_met without its try/except: the failure reaches the caller
CheckGoalMetUncaught(response) ==
    IF response.kind = "ok" THEN GoalResult(response)
    ELSE [raised |-> TRUE, goal_met |-> FALSE, confidence |-> 0,
          reasoning |-> <<>>]

\* GoalDetector.check_goal_met
CheckGoalMet(response) ==
    IF response.kind = "ok" THEN GoalResult(response) ELSE GoalError(response)

----------------------------------------------------------------------------
(* simulation.py: the bot process "Ira" (bot1) started by app.py, and the  *)
(* files of its simulation folder.                                         *)

\* the two stop-signal paths start_simulation assigns
StopPaths == {"bot1_stop_signal.json", "bot2_stop_signal.json"}

\* --stop-signal-file of the modelled process
OwnStopPath == "bot1_stop_signal.json"

\* a path with no file
NoFile == [exists |-> FALSE]

\* confidence > 0.7, in hundredths
ConfidenceThreshold == 70

\* the goal monitor's decision with >= for >
GoalDecisionNotStrict(result) ==
    result.goal_met /\ result.confidence >= ConfidenceThreshold

\* result.get("goal_met", False) and result.get("confidence", 0) > 0.7
GoalDecision(result) ==
    result.goal_met /\ result.confidence > ConfidenceThreshold

\* before any judgment call
NoCheck == [made |-> FALSE]

\* the process at the start of its run loop, with or without a GoalDetector
InitProcess(goal_detector) ==
    /\ proc = [pc |-> "running", ended_by |-> "none",
               stop_requested |-> FALSE, stop_reason |-> "none",
               cancel_requested |-> FALSE, time_up |-> FALSE,
               save_log_called |-> FALSE,
               transcript_step_reached |-> FALSE, exit_error |-> FALSE]
    /\ monitor = [goal_detector |-> goal_detector, goal_met |-> FALSE,
                  last_goal_check_turn |-> 0, turn_count |-> 0]
    /\ transcript = <<>>
    /\ fs = [marker |-> [p \in StopPaths |-> NoFile],
             tracing_log |-> NoFile,
             transcript_txt |-> NoFile,
             transcript_json |-> [b \in {"bot1", "bot2"} |-> NoFile],
             unified |-> NoFile,
             simplified |-> NoFile]
    /\ hist = [judgment_calls |-> <<>>, last_check |-> NoCheck,
               goal_marker_writes |-> 0]
    /\ operator = [simulation_running |-> TRUE,
                   merge |-> [ran |-> FALSE], merges |-> 0]
    /\ handler = [pc |-> "idle", forwarded |-> 0]
    /\ peer = [pc |-> "running", stop_requested |-> FALSE,
               stop_reason |-> "none", goal_met |-> FALSE,
               time_up |-> FALSE]

\* add_to_transcript
AddToTranscript(entries, speaker, type) ==
    Append(entries, [timestamp |-> now, speaker |-> speaker, type |-> type,
                     text |-> Len(entries) + 1])

\* OutputTranscriptTracker.process_frame on a TTSTextFrame with text: the
\* transcript entry, the tts_start event and the goal check.  write_ok says
\* whether creating the marker file succeeds (mkdir and open may raise).
OutputTrackerTTSText ==
    /\ proc.pc = "running"
    /\ monitor.turn_count < MaxTurnCount
    /\ transcript' = AddToTranscript(transcript, "Ira", "response")
    /\ tracer' = RecordEvent(tracer, "tts_start", NoTurn, now)
    /\ LET turn_count == monitor.turn_count + 1
       IN  IF monitor.goal_detector
              /\ turn_count >= monitor.last_goal_check_turn + 3
           THEN \E response \in ServiceResponses, write_ok \in BOOLEAN :
                  LET result == CheckGoalMet(response)
                      positive == ~result.raised /\ GoalDecision(result)
                      written == positive /\ write_ok
                      failed == result.raised \/ (positive /\ ~write_ok)
                  IN  /\ monitor' = [monitor EXCEPT
                             !.turn_count = turn_count,
                             !.goal_met = IF positive THEN TRUE ELSE @,
                             !.last_goal_check_turn =
                                 IF failed THEN @ ELSE turn_count]
                      /\ fs' = IF written
                               THEN [fs EXCEPT !.marker[OwnStopPath] =
                                        [exists |-> TRUE,
                                         reason |-> "goal_met",
                                         result |-> result]]
                               ELSE fs
                      /\ hist' = [judgment_calls |->
                                      Append(hist.judgment_calls, turn_count),
                                  last_check |->
                                      [made |-> TRUE,
                                       response |-> response,
                                       result |-> result],
                                  goal_marker_writes |->
                                      hist.goal_marker_writes
                                      + (IF written THEN 1 ELSE 0)]
           ELSE /\ monitor' = [monitor EXCEPT !.turn_count = turn_count]
                /\ UNCHANGED <<fs, hist>>
    /\ UNCHANGED <<now, audio_out_recorded, summary, threadVars, judge,
                   peer, handler,
                   proc, operator>>

\* TurnTracker.process_frame in the running process
ProcessTurnTrackerFrame ==
    /\ proc.pc = "running"
    /\ tracer.turn_counter < MaxTranscriptions
    /\ tracer' = StartTurn(EndTurn(tracer, now), now)
    /\ audio_out_recorded' = {}
    /\ UNCHANGED <<now, summary, threadVars, judge, botVars>>

\* max_time seconds have passed since the run started
TimeLimitPasses ==
    /\ proc.pc = "running"
    /\ ~proc.time_up
    /\ proc' = [proc EXCEPT !.time_up = TRUE]
    /\ UNCHANGED <<tracerVars, threadVars, judge, peer, handler, monitor,
                   transcript, fs,
                   hist, operator>>

\* a poller whose loop goes on after a detection
PollerCheckNoLatch ==
    /\ proc.pc = "running"
    /\ LET reason ==
               IF fs.marker[OwnStopPath].exists THEN "marker"
               ELSE IF monitor.goal_met THEN "goal_met"
               ELSE IF proc.time_up THEN "timeout"
               ELSE "none"
       IN  proc' = IF reason = "none" THEN proc
                   ELSE [proc EXCEPT !.stop_requested = TRUE,
                                     !.stop_reason = reason,
                                     !.cancel_requested = TRUE]
    /\ UNCHANGED <<tracerVars, threadVars, judge, peer, handler, monitor,
                   transcript, fs,
                   hist, operator>>

\* one round of check_stop_conditions after its sleep: the marker, then the
\* goal flag, then the time limit; the first that holds sets stop_requested
\* and cancels the runner
PollerCheck ==
    /\ proc.pc = "running"
    /\ ~proc.stop_requested
    /\ LET reason ==
               IF fs.marker[OwnStopPath].exists THEN "marker"
               ELSE IF monitor.goal_met THEN "goal_met"
               ELSE IF proc.time_up THEN "timeout"
               ELSE "none"
       IN  proc' = IF reason = "none" THEN proc
                   ELSE [proc EXCEPT !.stop_requested = TRUE,
                                     !.stop_reason = reason,
                                     !.cancel_requested = TRUE]
    /\ UNCHANGED <<tracerVars, threadVars, judge, peer, handler, monitor,
                   transcript, fs,
                   hist, operator>>

\* finally: tracer.save_log().  Its own try/except swallows the failure of
\* get_summary; then no log is written.
SaveLog(f, tr) ==
    LET s == GetSummary(tr)
    IN  IF s.raised THEN f
        ELSE [f EXCEPT !.tracing_log =
                 [exists |-> TRUE, summary |-> s, events |-> tr.events]]

\* finally: the transcript is written as text and as JSON when it is not
\* empty
SaveTranscript(f, entries) ==
    IF entries # <<>>
    THEN [f EXCEPT
            !.transcript_txt = [exists |-> TRUE, entries |-> entries],
            !.transcript_json["bot1"] =
                [exists |-> TRUE, readable |-> TRUE, bot_name |-> "Ira",
                 start_time |-> 0, end_time |-> now,
                 entries |-> entries]]
    ELSE f

\* runner.run(task) ends, the except clauses only log, and main() runs its
\* finally block: save_log(), then summary = tracer.get_summary() outside
\* any try, then the transcript files.  When get_summary raises, the
\* exception leaves the finally block and main() before the transcript.
EndRun(cause) ==
    /\ proc.pc = "running"
    /\ summary' = GetSummary(tracer)
    /\ fs' = IF summary'.raised
             THEN SaveLog(fs, tracer)
             ELSE SaveTranscript(SaveLog(fs, tracer), transcript)
    /\ proc' = [proc EXCEPT !.pc = "exited",
                            !.ended_by = cause,
                            !.save_log_called = TRUE,
                            !.transcript_step_reached = ~summary'.raised,
                            !.exit_error = summary'.raised]
    /\ UNCHANGED <<tracer, now, audio_out_recorded, threadVars, judge,
                   peer, handler,
                   monitor, transcript, hist, operator>>

\* the runner was cancelled by the poller
RunCancelled == proc.cancel_requested /\ EndRun("cancelled")

\* asyncio.wait_for raises TimeoutError
RunTimeout == proc.time_up /\ EndRun("timeout")

\* an exception or a KeyboardInterrupt leaves runner.run
RunError == EndRun("exception")

\* runner.run returns by itself
RunReturns == EndRun("returned")

----------------------------------------------------------------------------
(* app.py: generate_unified_transcript and stop_simulation.                *)

\* a collection that leaves out the entries that are no conversation message
MergeEntriesFiltered(data) ==
    SelectSeq([i \in 1..Len(data.entries) |->
                  [timestamp |-> data.entries[i].timestamp,
                   bot |-> data.bot_name,
                   speaker |-> data.entries[i].speaker,
                   message |-> data.entries[i].text,
                   type |-> data.entries[i].type]],
              LAMBDA e : e.type # "initial_trigger")

\* the entries of one transcript file as the merge collects them
MergeEntries(data) ==
    [i \in 1..Len(data.entries) |->
        [timestamp |-> data.entries[i].timestamp,
         bot |-> data.bot_name,
         speaker |-> data.entries[i].speaker,
         message |-> data.entries[i].text,
         type |-> data.entries[i].type]]

\* an insertion that puts the entry before the entries of the same timestamp
RECURSIVE InsertBeforeEqual(_, _)
InsertBeforeEqual(sorted, e) ==
    IF sorted = <<>> THEN <<e>>
    ELSE LET last == sorted[Len(sorted)]
         IN  IF last.timestamp >= e.timestamp
             THEN Append(InsertBeforeEqual(SubSeq(sorted, 1, Len(sorted) - 1),
                                           e), last)
             ELSE Append(sorted, e)

\* list.sort(key=timestamp) of entries that are sorted but for the last:
\* the last entry moves before the entries with a larger timestamp
RECURSIVE InsertByTimestamp(_, _)
InsertByTimestamp(sorted, e) ==
    IF sorted = <<>> THEN <<e>>
    ELSE LET last == sorted[Len(sorted)]
         IN  IF last.timestamp > e.timestamp
             THEN Append(InsertByTimestamp(SubSeq(sorted, 1, Len(sorted) - 1),
                                           e), last)
             ELSE Append(sorted, e)

\* all_entries.sort(key=lambda x: x["timestamp"]): a stable sort
RECURSIVE SortByTimestamp(_)
SortByTimestamp(entries) ==
    IF entries = <<>> THEN <<>>
    ELSE InsertByTimestamp(
             SortByTimestamp(SubSeq(entries, 1, Len(entries) - 1)),
             entries[Len(entries)])

\* a projection that keeps the entries of every type
SimplifyUnfiltered(entries, bot1_name, bot2_name) ==
    [i \in 1..Len(entries) |->
        [bot |-> IF entries[i].bot = bot1_name THEN "Bot 1" ELSE "Bot 2",
         message |-> entries[i].message]]

\* the messages of the simplified transcript
RECURSIVE Simplify(_, _, _)
Simplify(entries, bot1_name, bot2_name) ==
    IF entries = <<>> THEN <<>>
    ELSE LET e == Head(entries)
             rest == Simplify(Tail(entries), bot1_name, bot2_name)
         IN  IF e.type \in {"transcription", "response", "message"}
             THEN IF e.bot = bot1_name
                  THEN <<[bot |-> "Bot 1", message |-> e.message]>> \o rest
                  ELSE IF e.bot = bot2_name
                  THEN <<[bot |-> "Bot 2", message |-> e.message]>> \o rest
                  ELSE rest
             ELSE rest

\* min and max of two times
Earlier(a, b) == IF a <= b THEN a ELSE b
Later(a, b) == IF a >= b THEN a ELSE b

\* the path of a bot's JSON transcript
TranscriptPath(b) ==
    IF b = "bot1" THEN "bot1_Ira_transcript.json"
    ELSE "bot2_Chetan_transcript.json"

\* str(e) of the exception open() or json.load() raises on a file that
\* exists and cannot be loaded: a PermissionError names the path, a
\* JSONDecodeError does not
LoadErrorText(b, d) ==
    IF d.error = "PermissionError"
    THEN <<"[Errno 13] Permission denied: ", TranscriptPath(b)>>
    ELSE <<"Expecting value: line 1 column 1 (char 0)">>

\* the merge of two loaded transcripts, written as both artifacts
WriteUnified(f, bot1_data, bot2_data, all_entries) ==
    [f EXCEPT
        !.unified =
            [exists |-> TRUE,
             bot1_name |-> bot1_data.bot_name,
             bot2_name |-> bot2_data.bot_name,
             start_time |-> Earlier(bot1_data.start_time,
                                    bot2_data.start_time),
             end_time |-> Later(bot1_data.end_time, bot2_data.end_time),
             total_turns |-> Len(all_entries),
             conversation |-> all_entries]]

\* the simplified transcript is written next to the unified one
WriteSimplified(f, bot1_data, bot2_data, all_entries) ==
    [f EXCEPT
        !.simplified =
            [exists |-> TRUE,
             bot1_name |-> bot1_data.bot_name,
             bot2_name |-> bot2_data.bot_name,
             messages |-> Simplify(all_entries, bot1_data.bot_name,
                                   bot2_data.bot_name)]]

\* the two writes of a merge, the unified transcript first
WriteMerged(f, bot1_data, bot2_data, all_entries) ==
    WriteSimplified(WriteUnified(f, bot1_data, bot2_data, all_entries),
                    bot1_data, bot2_data, all_entries)

\* a file at an output path that open(path, 'w') cannot open
ReadOnlyFile == [exists |-> TRUE, read_only |-> TRUE]

\* a merge that adds its entries to the conversation already in the unified
\* artifact
GenerateUnifiedTranscriptAppending(f) ==
    LET bot1_data == f.transcript_json["bot1"]
        bot2_data == f.transcript_json["bot2"]
    IN  IF ~bot1_data.exists \/ ~bot2_data.exists
           \/ ~bot1_data.readable \/ ~bot2_data.readable
        THEN [fs |-> f, success |-> FALSE, message |-> <<"failed">>]
        ELSE [fs |-> WriteMerged(f, bot1_data, bot2_data,
                        (IF f.unified.exists THEN f.unified.conversation
                         ELSE <<>>)
                        \o SortByTimestamp(MergeEntries(bot1_data)
                                           \o MergeEntries(bot2_data))),
              success |-> TRUE,
              message |-> <<"Unified transcript saved to ",
                            "unified_transcript.json">>]

\* a merge that takes a stop marker left in the folder for a sign that the
\* simulation is still being stopped, and gives up
GenerateUnifiedTranscriptUnlessMarked(f) ==
    IF \E p \in StopPaths : f.marker[p].exists
    THEN [fs |-> f, success |-> FALSE,
          message |-> <<"Error generating unified transcript: ",
                        "stop signal present">>]
    ELSE
        LET bot1_data == f.transcript_json["bot1"]
            bot2_data == f.transcript_json["bot2"]
        IN  IF ~bot1_data.exists \/ ~bot2_data.exists
            THEN [fs |-> f, success |-> FALSE,
                  message |-> <<"Bot transcript files not found yet">>]
            ELSE IF ~bot1_data.readable
            THEN [fs |-> f, success |-> FALSE,
                  message |-> <<"Error generating unified transcript: ">>
                              \o LoadErrorText("bot1", bot1_data)]
            ELSE IF ~bot2_data.readable
            THEN [fs |-> f, success |-> FALSE,
                  message |-> <<"Error generating unified transcript: ">>
                              \o LoadErrorText("bot2", bot2_data)]
            ELSE [fs |-> WriteMerged(f, bot1_data, bot2_data,
                            SortByTimestamp(MergeEntries(bot1_data)
                                            \o MergeEntries(bot2_data))),
                  success |-> TRUE,
                  message |-> <<"Unified transcript saved to ",
                                "unified_transcript.json",
                                ". Simplified transcript saved to ",
                                "simplified_transcript.json">>]

\* generate_unified_transcript on the files f: the files after it, and what
\* it returns.  A message is a sequence of text pieces.
GenerateUnifiedTranscript(f) ==
    LET bot1_data == f.transcript_json["bot1"]
        bot2_data == f.transcript_json["bot2"]
    IN  IF ~bot1_data.exists \/ ~bot2_data.exists
        THEN [fs |-> f, success |-> FALSE,
              message |-> <<"Bot transcript files not found yet">>]
        ELSE IF ~bot1_data.readable
        THEN [fs |-> f, success |-> FALSE,
              message |-> <<"Error generating unified transcript: ">>
                          \o LoadErrorText("bot1", bot1_data)]
        ELSE IF ~bot2_data.readable
        THEN [fs |-> f, success |-> FALSE,
              message |-> <<"Error generating unified transcript: ">>
                          \o LoadErrorText("bot2", bot2_data)]
        ELSE IF f.unified = ReadOnlyFile
        THEN [fs |-> f, success |-> FALSE,
              message |-> <<"Error generating unified transcript: ",
                            "PermissionError",
                            "unified_transcript.json">>]
        ELSE IF f.simplified = ReadOnlyFile
        THEN [fs |-> WriteUnified(f, bot1_data, bot2_data,
                        SortByTimestamp(MergeEntries(bot1_data)
                                        \o MergeEntries(bot2_data))),
              success |-> FALSE,
              message |-> <<"Error generating unified transcript: ",
                            "PermissionError",
                            "simplified_transcript.json">>]
        ELSE [fs |-> WriteMerged(f, bot1_data, bot2_data,
                        SortByTimestamp(MergeEntries(bot1_data)
                                        \o MergeEntries(bot2_data))),
              success |-> TRUE,
              message |-> <<"Unified transcript saved to ",
                            "unified_transcript.json",
                            ". Simplified transcript saved to ",
                            "simplified_transcript.json">>]

\* the "Generate Unified Transcript" button of the control panel
GenerateUnifiedTranscriptCall ==
    /\ operator.merges < MaxMergeRuns
    /\ LET merged == GenerateUnifiedTranscript(fs)
       IN  /\ fs' = merged.fs
           /\ operator' = [operator EXCEPT
                  !.merge = [ran |-> TRUE, success |-> merged.success,
                             message |-> merged.message],
                  !.merges = @ + 1]
    /\ UNCHANGED <<tracerVars, threadVars, judge, peer, handler, proc,
                   monitor, transcript,
                   hist>>

\* stop_simulation: a user_requested marker is written at every stop path
\* whose write succeeds (a failure is ignored), the simulation is marked as
\* stopped, and the transcripts are merged
StopSimulation ==
    /\ operator.simulation_running
    /\ \E writable \in SUBSET StopPaths :
          LET marked == [fs EXCEPT !.marker =
                            [p \in StopPaths |->
                                IF p \in writable
                                THEN [exists |-> TRUE,
                                      reason |-> "user_requested",
                                      timestamp |-> now]
                                ELSE fs.marker[p]]]
              merged == GenerateUnifiedTranscript(marked)
          IN  /\ fs' = merged.fs
              /\ operator' = [simulation_running |-> FALSE,
                              merge |-> [ran |-> TRUE,
                                         success |-> merged.success,
                                         message |-> merged.message],
                              merges |-> operator.merges + 1]
    /\ UNCHANGED <<tracerVars, threadVars, judge, peer, handler, proc,
                   monitor, transcript,
                   hist>>

----------------------------------------------------------------------------
(* OutputTranscriptTracker.process_frame on a TTSTextFrame, step by step:  *)
(* the coroutine records the response, calls check_goal_met (a synchronous *)
(* call of the judgment service, made inside the coroutine), and awaits    *)
(* push_frame after the call has returned or raised.                       *)

\* process_frame up to the judgment call: the transcript entry, the
\* tts_start event, the turn count; the call is made if a check is due
TTSTextFrameArrives ==
    /\ proc.pc = "running"
    /\ handler.pc = "idle"
    /\ monitor.turn_count < MaxTurnCount
    /\ transcript' = AddToTranscript(transcript, "Ira", "response")
    /\ tracer' = RecordEvent(tracer, "tts_start", NoTurn, now)
    /\ monitor' = [monitor EXCEPT !.turn_count = @ + 1]
    /\ IF monitor.goal_detector
          /\ monitor.turn_count + 1 >= monitor.last_goal_check_turn + 3
       THEN /\ handler' = [handler EXCEPT !.pc = "checking"]
            /\ hist' = [hist EXCEPT !.judgment_calls =
                                        Append(@, monitor.turn_count + 1)]
       ELSE /\ handler' = [handler EXCEPT !.pc = "pushing"]
            /\ hist' = hist
    /\ UNCHANGED <<now, audio_out_recorded, summary, threadVars, judge,
                   proc, fs, operator, peer>>

\* check_goal_met returns or raises, and process_frame acts on the result
JudgmentReturns ==
    /\ handler.pc = "checking"
    /\ \E response \in ServiceResponses, write_ok \in BOOLEAN :
          LET result == CheckGoalMet(response)
              positive == ~result.raised /\ GoalDecision(result)
              written == positive /\ write_ok
              failed == result.raised \/ (positive /\ ~write_ok)
          IN  /\ monitor' = [monitor EXCEPT
                     !.goal_met = IF positive THEN TRUE ELSE @,
                     !.last_goal_check_turn =
                         IF failed THEN @ ELSE monitor.turn_count]
              /\ fs' = IF written
                       THEN [fs EXCEPT !.marker[OwnStopPath] =
                                [exists |-> TRUE, reason |-> "goal_met",
                                 result |-> result]]
                       ELSE fs
              /\ hist' = [hist EXCEPT
                     !.last_check = [made |-> TRUE, response |-> response,
                                     result |-> result],
                     !.goal_marker_writes =
                         @ + (IF written THEN 1 ELSE 0)]
    /\ handler' = [handler EXCEPT !.pc = "pushing"]
    /\ UNCHANGED <<tracerVars, threadVars, judge, proc, transcript,
                   operator, peer>>

\* await self.push_frame(frame, direction): the frame goes downstream
PushFrame ==
    /\ handler.pc = "pushing"
    /\ handler' = [pc |-> "idle", forwarded |-> handler.forwarded + 1]
    /\ UNCHANGED <<tracerVars, threadVars, judge, proc, monitor, transcript,
                   fs, hist, operator, peer>>

----------------------------------------------------------------------------
(* The second bot process ("Chetan"), started by start_simulation with its *)
(* own stop-signal path.  It runs the same simulation.py; of it the model  *)
(* keeps what decides when it stops and when its JSON transcript exists.   *)

PeerStopPath == "bot2_stop_signal.json"

\* the peer's goal monitor judges the goal met: it sets its flag and writes
\* the goal_met marker at the peer's own stop path
PeerGoalMonitor ==
    /\ peer.pc = "running"
    /\ ~peer.goal_met
    /\ peer' = [peer EXCEPT !.goal_met = TRUE]
    /\ \E response \in ServiceResponses, write_ok \in BOOLEAN :
          LET result == CheckGoalMet(response)
          IN  /\ ~result.raised
              /\ GoalDecision(result)
              /\ fs' = IF write_ok
                       THEN [fs EXCEPT !.marker[PeerStopPath] =
                                [exists |-> TRUE, reason |-> "goal_met",
                                 result |-> result]]
                       ELSE fs
    /\ UNCHANGED <<tracerVars, threadVars, judge, handler, proc, monitor,
                   transcript,
                   hist, operator>>

\* max_time seconds have passed since the peer's run started
PeerTimeLimitPasses ==
    /\ peer.pc = "running"
    /\ ~peer.time_up
    /\ peer' = [peer EXCEPT !.time_up = TRUE]
    /\ UNCHANGED <<tracerVars, threadVars, judge, handler, proc, monitor,
                   transcript,
                   fs, hist, operator>>

\* one round of the peer's check_stop_conditions that detects a condition
PeerPollerCheck ==
    /\ peer.pc = "running"
    /\ ~peer.stop_requested
    /\ LET reason ==
               IF fs.marker[PeerStopPath].exists THEN "marker"
               ELSE IF peer.goal_met THEN "goal_met"
               ELSE IF peer.time_up THEN "timeout"
               ELSE "none"
       IN  /\ reason # "none"
           /\ peer' = [peer EXCEPT !.stop_requested = TRUE,
                                   !.stop_reason = reason]
    /\ UNCHANGED <<tracerVars, threadVars, judge, handler, proc, monitor,
                   transcript,
                   fs, hist, operator>>

\* the peer's run ends and its finally block opens the JSON transcript for
\* writing: the file exists and does not yet hold a JSON document
PeerOpensTranscript ==
    /\ peer.pc = "running"
    /\ peer.stop_requested
    /\ peer' = [peer EXCEPT !.pc = "saving"]
    /\ fs' = [fs EXCEPT !.transcript_json["bot2"] =
                 [exists |-> TRUE, readable |-> FALSE,
                  error |-> "JSONDecodeError"]]
    /\ UNCHANGED <<tracerVars, threadVars, judge, handler, proc, monitor,
                   transcript,
                   hist, operator>>

\* json.dump has written the peer's transcript and the file is closed; the
\* process exits
PeerExits ==
    /\ peer.pc = "saving"
    /\ peer' = [peer EXCEPT !.pc = "exited"]
    /\ fs' = [fs EXCEPT !.transcript_json["bot2"] =
                 [exists |-> TRUE, readable |-> TRUE, bot_name |-> "Chetan",
                  start_time |-> 0, end_time |-> now,
                  entries |-> <<[timestamp |-> now, speaker |-> "Chetan",
                                type |-> "response", text |-> 1]>>]]
    /\ UNCHANGED <<tracerVars, threadVars, judge, handler, proc, monitor,
                   transcript,
                   hist, operator>>

----------------------------------------------------------------------------
(* SpecTracer: the tracer under any sequence of calls of its interface and *)
(* of the handlers that start turns.                                       *)

\* no thread is inside a tracer call
InitThreads ==
    /\ threads = [t \in Threads |-> IdleThread]
    /\ lock = Free
    /\ allocated = <<>>
    /\ calls_started = 0

InitTracer ==
    /\ tracer = NewTracer
    /\ now = 0
    /\ audio_out_recorded = {}
    /\ summary = NotCalled
    /\ InitThreads
    /\ judge = IdleJudge
    /\ InitProcess(FALSE)

NextTracer ==
    \/ Tick
    \/ StartTurnCall
    \/ EndTurnCall
    \/ RecordCall
    \/ OnSpeechStarted
    \/ TurnTrackerFrame
    \/ AudioOutputFrame
    \/ GetSummaryCall

SpecTracer == InitTracer /\ [][NextTracer]_vars

(* SpecSummary: get_summary applied to the tracer left by a replayed       *)
(* session of 1..MaxSummaryTurns turns.                                    *)

InitSummary ==
    /\ \E n \in 1..MaxSummaryTurns :
          \E shapes \in [1..n -> TurnShapes] :
             /\ tracer = Replay(NewTracer, SessionCalls(shapes, 1))
             /\ now = 5 * n
    /\ audio_out_recorded = {}
    /\ summary = NotCalled
    /\ InitThreads
    /\ judge = IdleJudge
    /\ InitProcess(FALSE)

NextSummary == GetSummaryCall

SpecSummary == InitSummary /\ [][NextSummary]_vars

(* SpecImplicit: get_summary after a session in which one turn was not     *)
(* started by start_turn: its first record_* call found no current turn    *)
(* and opened one.                                                         *)

\* the calls of the turns shapes[i], ..., the turn at position k without
\* its start_turn call
RECURSIVE ImplicitSessionCalls(_, _, _)
ImplicitSessionCalls(shapes, i, k) ==
    IF i > Len(shapes) THEN <<>>
    ELSE (IF i = k THEN Tail(TurnCalls(5 * (i - 1), shapes[i]))
          ELSE TurnCalls(5 * (i - 1), shapes[i]))
         \o ImplicitSessionCalls(shapes, i + 1, k)

InitImplicit ==
    /\ \E n \in 1..MaxSummaryTurns :
          \E shapes \in [1..n -> {s \in TurnShapes : s.vad \in {None, 2}}],
             k \in 1..n :
             /\ tracer = Replay(NewTracer, ImplicitSessionCalls(shapes, 1, k))
             /\ now = 5 * n
    /\ audio_out_recorded = {}
    /\ summary = NotCalled
    /\ InitThreads
    /\ judge = IdleJudge
    /\ InitProcess(FALSE)

SpecImplicit == InitImplicit /\ [][NextSummary]_vars


(* SpecThreads: the tracer called from two threads at once.                *)

NextThreads ==
    \/ Tick
    \/ \E t \in Threads :
          \/ BeginCall(t)
          \/ GetIdRead(t)
          \/ GetIdWrite(t)
          \/ GetIdReturn(t)
          \/ SetCurrent(t)
          \/ AcquireLock(t)
          \/ InheritTurn(t)
          \/ RecordBody(t)
          \/ EndTurnTest(t)
          \/ EndTurnArg(t)
          \/ EndTurnClear(t)

SpecThreads == InitTracer /\ [][NextThreads]_vars


(* SpecJudge: evaluate_simulation on a transcript and a criteria list of   *)
(* at most MaxCriteria criteria.                                           *)

InitJudge ==
    /\ tracer = NewTracer
    /\ now = 0
    /\ audio_out_recorded = {}
    /\ summary = NotCalled
    /\ InitThreads
    /\ InitProcess(FALSE)
    /\ \E n \in 0..MaxCriteria :
          \E criteria \in [1..n -> {"scale", "boolean"}] :
             \E transcript_file \in {"ok", "empty", "missing"},
                artifact \in {NoArtifact, PreviousArtifact} :
                judge = [IdleJudge EXCEPT !.criteria = criteria,
                                          !.transcript = transcript_file,
                                          !.artifact = artifact]

NextJudge ==
    \/ LoadTranscript
    \/ EvaluateCriterion
    \/ FinishEvaluation

SpecJudge == InitJudge /\ [][NextJudge]_vars

(* SpecScoring: evaluate_conversation on any response text of the          *)
(* judgment service of up to MaxResponseLen pieces.                        *)

ScoringResponses ==
    UNION {[1..n -> ResponsePieces] : n \in 0..MaxResponseLen}

InitScoring ==
    /\ tracer = NewTracer
    /\ now = 0
    /\ audio_out_recorded = {}
    /\ summary = NotCalled
    /\ InitThreads
    /\ InitProcess(FALSE)
    /\ \E response \in ScoringResponses :
          judge = [pc |-> "scoring", response |-> response,
                   result |-> FallbackResult(<<>>)]

NextScoring == EvaluateConversationCall

SpecScoring == InitScoring /\ [][NextScoring]_vars


(* SpecBot: one bot process with its goal monitor, its stop poller and its *)
(* finalization, and the operator's stop.  The other process is not run,   *)
(* so its transcript file never appears.                                   *)

InitBot ==
    /\ tracer = NewTracer
    /\ now = 0
    /\ audio_out_recorded = {}
    /\ summary = NotCalled
    /\ InitThreads
    /\ judge = IdleJudge
    /\ \E goal_detector \in BOOLEAN : InitProcess(goal_detector)

NextBot ==
    \/ OutputTrackerTTSText
    \/ ProcessTurnTrackerFrame
    \/ TimeLimitPasses
    \/ PollerCheck
    \/ RunCancelled
    \/ RunTimeout
    \/ RunError
    \/ RunReturns
    \/ StopSimulation

SpecBot == InitBot /\ [][NextBot]_vars

(* SpecFrames: the goal monitor's frame handler in its steps.              *)
(* SpecFramesFair: the event loop resumes a coroutine that can go on, so   *)
(* a frame that is ready to be pushed is pushed; nothing makes the         *)
(* judgment service answer within any time.                                *)

NextFrames ==
    \/ TTSTextFrameArrives
    \/ JudgmentReturns
    \/ PushFrame

SpecFrames == InitBot /\ [][NextFrames]_vars

SpecFramesFair == SpecFrames /\ WF_vars(PushFrame)

(* SpecSession: both bot processes and the control panel of one            *)
(* simulation: what the first process says and how it is stopped, the      *)
(* second process, the operator's stop and the merge button.               *)

NextSession ==
    \/ OutputTrackerTTSText
    \/ TimeLimitPasses
    \/ PollerCheck
    \/ RunCancelled
    \/ StopSimulation
    \/ PeerGoalMonitor
    \/ PeerTimeLimitPasses
    \/ PeerPollerCheck
    \/ PeerOpensTranscript
    \/ PeerExits
    \/ GenerateUnifiedTranscriptCall

SpecSession == InitBot /\ [][NextSession]_vars

(* SpecMerge: generate_unified_transcript run from the control panel on    *)
(* two transcript files in any state the bots and the file system can     *)
(* leave them in.                                                          *)

\* the seconds of the entries of a transcript: add_to_transcript appends
\* with the clock's time, so they never decrease
Stamps ==
    {st \in UNION {[1..n -> 0..MaxStamp] : n \in 1..MaxEntries} :
        \A i \in 1..(Len(st) - 1) : st[i] <= st[i + 1]}

\* the name of the other participant of the room
PeerName(name) == IF name = "Ira" THEN "Chetan" ELSE "Ira"

\* the types add_to_transcript is called with
EntryTypes == {"initial_trigger", "transcription", "response"}

\* the entries a bot named name saves: first the initial trigger, something
\* it heard from its peer or something it said, and then its responses
SavedEntries(name, st, first_type) ==
    [i \in 1..Len(st) |->
        IF i = 1 /\ first_type = "initial_trigger"
        THEN [timestamp |-> st[i], speaker |-> "System",
              type |-> "initial_trigger", text |-> i]
        ELSE IF i = 1 /\ first_type = "transcription"
        THEN [timestamp |-> st[i], speaker |-> PeerName(name),
              type |-> "transcription", text |-> i]
        ELSE [timestamp |-> st[i], speaker |-> name,
              type |-> "response", text |-> i]]

\* the JSON transcripts the finally block of a bot named name can write:
\* never with no entries, started before its first entry and ended after
\* its last
SavedTranscripts(name) ==
    {[exists |-> TRUE, readable |-> TRUE, bot_name |-> name,
      start_time |-> start, end_time |-> end,
      entries |-> SavedEntries(name, st, first_type)] :
        <<st, first_type, start, end>> \in
            {q \in Stamps \X EntryTypes \X (0..MaxStamp) \X (0..MaxStamp) :
                /\ q[3] \in {0, q[1][1]}
                /\ q[4] \in {q[1][Len(q[1])], MaxStamp}}}

\* a file that exists and that open() or json.load() cannot load
UnreadableFiles ==
    {[exists |-> TRUE, readable |-> FALSE, error |-> e] :
        e \in {"PermissionError", "JSONDecodeError"}}

TranscriptFiles(name) ==
    {NoFile} \cup UnreadableFiles \cup SavedTranscripts(name)

InitMerge ==
    /\ tracer = NewTracer
    /\ now = 0
    /\ audio_out_recorded = {}
    /\ summary = NotCalled
    /\ InitThreads
    /\ judge = IdleJudge
    /\ proc = [pc |-> "exited", ended_by |-> "cancelled",
               stop_requested |-> TRUE, stop_reason |-> "marker",
               cancel_requested |-> TRUE, time_up |-> FALSE,
               save_log_called |-> TRUE,
               transcript_step_reached |-> TRUE, exit_error |-> FALSE]
    /\ monitor = [goal_detector |-> FALSE, goal_met |-> FALSE,
                  last_goal_check_turn |-> 0, turn_count |-> 0]
    /\ transcript = <<>>
    /\ hist = [judgment_calls |-> <<>>, last_check |-> NoCheck,
               goal_marker_writes |-> 0]
    /\ operator = [simulation_running |-> FALSE,
                   merge |-> [ran |-> FALSE], merges |-> 0]
    /\ handler = [pc |-> "idle", forwarded |-> 0]
    /\ peer = [pc |-> "exited", stop_requested |-> TRUE,
               stop_reason |-> "marker", goal_met |-> FALSE,
               time_up |-> FALSE]
    /\ \E bot1_file \in TranscriptFiles("Ira"),
          bot2_file \in TranscriptFiles("Chetan") :
           fs = [marker |-> [p \in StopPaths |-> NoFile],
                 tracing_log |-> NoFile,
                 transcript_txt |-> NoFile,
                 transcript_json |-> [b \in {"bot1", "bot2"} |->
                     IF b = "bot1" THEN bot1_file ELSE bot2_file],
                 unified |-> NoFile,
                 simplified |-> NoFile]

NextMerge == GenerateUnifiedTranscriptCall

SpecMerge == InitMerge /\ [][NextMerge]_vars

(* SpecMergeFaults: the merge in a simulation folder where an output path  *)
(* may hold a file that cannot be opened for writing.                      *)

InitMergeFaults ==
    /\ tracer = NewTracer
    /\ now = 0
    /\ audio_out_recorded = {}
    /\ summary = NotCalled
    /\ InitThreads
    /\ judge = IdleJudge
    /\ proc = [pc |-> "exited", ended_by |-> "cancelled",
               stop_requested |-> TRUE, stop_reason |-> "marker",
               cancel_requested |-> TRUE, time_up |-> FALSE,
               save_log_called |-> TRUE,
               transcript_step_reached |-> TRUE, exit_error |-> FALSE]
    /\ monitor = [goal_detector |-> FALSE, goal_met |-> FALSE,
                  last_goal_check_turn |-> 0, turn_count |-> 0]
    /\ transcript = <<>>
    /\ hist = [judgment_calls |-> <<>>, last_check |-> NoCheck,
               goal_marker_writes |-> 0]
    /\ operator = [simulation_running |-> FALSE,
                   merge |-> [ran |-> FALSE], merges |-> 0]
    /\ handler = [pc |-> "idle", forwarded |-> 0]
    /\ peer = [pc |-> "exited", stop_requested |-> TRUE,
               stop_reason |-> "marker", goal_met |-> FALSE,
               time_up |-> FALSE]
    /\ \E bot1_file \in TranscriptFiles("Ira"),
          bot2_file \in TranscriptFiles("Chetan"),
          unified_file \in {NoFile, ReadOnlyFile},
          simplified_file \in {NoFile, ReadOnlyFile} :
           fs = [marker |-> [p \in StopPaths |-> NoFile],
                 tracing_log |-> NoFile,
                 transcript_txt |-> NoFile,
                 transcript_json |-> [b \in {"bot1", "bot2"} |->
                     IF b = "bot1" THEN bot1_file ELSE bot2_file],
                 unified |-> unified_file,
                 simplified |-> simplified_file]

SpecMergeFaults == InitMergeFaults /\ [][NextMerge]_vars

(* SpecBotFair: SpecBot where the poller task keeps being scheduled (it    *)
(* wakes every 2 seconds until it has set the stop flag) and the runner    *)
(* honours a requested cancel by ending the run loop.                      *)

SpecBotFair ==
    /\ InitBot
    /\ [][NextBot]_vars
    /\ WF_vars(PollerCheck)
    /\ WF_vars(RunCancelled)

----------------------------------------------------------------------------
(* C1.  average_scale_score is the mean, rounded to 2 decimals, of the     *)
(* numeric non-boolean scores only (absent when there is none),            *)
(* boolean_pass_rate is the percentage of boolean scores that are true,    *)
(* and a boolean score counts neither in the scale average nor in the      *)
(* scale count.                                                            *)

\* score is a number and not a boolean
IsScaleScore(score) == score.kind = "int"

\* every criterion got a score of its scoring type, or none
ScoresMatchCriteria ==
    \A i \in 1..Len(judge.criteria_evaluations) :
        judge.criteria_evaluations[i].kind \in
            {"none", IF judge.criteria[i] = "scale" THEN "int" ELSE "bool"}

C1_SummaryAggregation ==
    (judge.pc = "done" /\ ScoresMatchCriteria) =>
        LET scale == SelectSeq(judge.criteria_evaluations, IsScaleScore)
            bools == SelectSeq(judge.criteria_evaluations, IsBool)
        IN  /\ judge.summary.scale_criteria_count = Len(scale)
            /\ judge.summary.average_scale_score =
                   IF scale = <<>> THEN None
                   ELSE RoundDiv(100 * SumScores(scale), Len(scale))
            /\ judge.summary.boolean_pass_rate =
                   IF bools = <<>> THEN None
                   ELSE RoundDiv(1000 * SumScores(bools), Len(bools))

----------------------------------------------------------------------------
(* C10.  start_turn called while a turn T is open first closes T: the      *)
(* turn-end event of T is in the log before the turn-start event of the    *)
(* new turn.                                                               *)

\* turn T has events in log[1..j-1] and no turn_end among them
OpenBefore(log, T, j) ==
    /\ \E i \in 1..(j - 1) : log[i].turn_id = T
    /\ ~\E k \in 1..(j - 1) :
           log[k].turn_id = T /\ log[k].event_type = "turn_end"

C10_StartTurnClosesOpenTurn ==
    \A j \in 1..Len(tracer.events) :
        tracer.events[j].event_type = "turn_start" =>
            ~\E T \in DOMAIN tracer.turn_events :
                 T # tracer.events[j].turn_id
                 /\ OpenBefore(tracer.events, T, j)

----------------------------------------------------------------------------
(* C9.  The turn ids one tracer allocates are pairwise distinct and        *)
(* strictly increasing in allocation order, also under concurrent calls.   *)

\* the order of turn ids: by counter, then by the millisecond suffix
TurnIdLess(a, b) == a[1] < b[1] \/ (a[1] = b[1] /\ a[2] < b[2])

C9_TurnIdsDistinctIncreasing ==
    \A i, j \in 1..Len(allocated) :
        i < j => TurnIdLess(allocated[i], allocated[j])

----------------------------------------------------------------------------
(* C2.  For every latency kind get_summary reports, the mean is the sum of *)
(* that latency over the completed turns in which it is present (not None, *)
(* zero included) divided by the number of those turns.                    *)

\* the completed turns whose metrics have the latency kind present
PresentTurns(tr, kind) ==
    {t \in CompletedTurns(tr) : CalculateTurnMetrics(tr, t)[kind] # None}

C2_MeanOverPresentTurns ==
    (summary # NotCalled /\ ~summary.raised) =>
        \A kind \in AveragedLatencies :
            LET present == PresentTurns(tracer, kind)
                mean == summary.average_latencies[kind]
            IN  present # {} =>
                    mean.num * Cardinality(present) =
                        SumLatency(tracer, present, kind) * mean.den

----------------------------------------------------------------------------
(* C3.  Whatever ends the run, the process passes through the finalization *)
(* path, and on it both the tracing-log persistence and the transcript     *)
(* persistence are attempted before the process exits.                     *)

C3_FinalizationAttemptsBoth ==
    proc.pc = "exited" =>
        proc.save_log_called /\ proc.transcript_step_reached

----------------------------------------------------------------------------
(* C4.  A stop marker is write-once: once a marker file exists at a stop   *)
(* path, no step of the system deletes it or changes its content.          *)

C4_MarkerWriteOnce ==
    [][\A p \in StopPaths :
          fs.marker[p].exists => fs'.marker[p] = fs.marker[p]]_vars

----------------------------------------------------------------------------
(* C5.  Within one run the goal monitor writes the goal_met marker at most *)
(* once.                                                                   *)

C5_GoalMarkerWrittenOnce == hist.goal_marker_writes <= 1

----------------------------------------------------------------------------
(* C6.  Cadence: no judgment call is issued before the 3rd spoken turn,    *)
(* and between two consecutive judgment calls at least 3 spoken turns      *)
(* have occurred, also after a failed check or marker write.               *)

C6_Cadence ==
    \A i \in 1..Len(hist.judgment_calls) :
        /\ hist.judgment_calls[i] >= 3
        /\ i > 1 => hist.judgment_calls[i] - hist.judgment_calls[i - 1] >= 3

----------------------------------------------------------------------------
(* C7.  Decision rule: a step of the monitor sets its goal-met flag or     *)
(* writes a goal_met marker only when the judgment result of that step has *)
(* goal_met true and a confidence strictly greater than 0.7; a result with *)
(* confidence exactly 0.70, or with goal_met false, sets no flag and       *)
(* writes no marker.                                                       *)

\* this step is a judgment call of the goal monitor
JudgmentStep == hist'.judgment_calls # hist.judgment_calls

C7_DecisionRule ==
    [][/\ (monitor'.goal_met # monitor.goal_met
           \/ hist'.goal_marker_writes # hist.goal_marker_writes)
          => /\ JudgmentStep
             /\ hist'.last_check.result.goal_met
             /\ hist'.last_check.result.confidence > 70
       /\ (/\ JudgmentStep
           /\ \/ ~hist'.last_check.result.goal_met
              \/ hist'.last_check.result.confidence <= 70)
          => /\ monitor'.goal_met = monitor.goal_met
             /\ fs'.marker = fs.marker
             /\ hist'.goal_marker_writes = hist.goal_marker_writes]_vars

\* a check answered goal_met with confidence exactly 0.70 and nothing was
\* flagged or written
C7_Witness ==
    /\ hist.last_check.made
    /\ hist.last_check.response.kind = "ok"
    /\ hist.last_check.result.goal_met
    /\ hist.last_check.result.confidence = 70
    /\ ~monitor.goal_met
    /\ ~fs.marker[OwnStopPath].exists
    /\ hist.goal_marker_writes = 0

----------------------------------------------------------------------------
(* C8.  check_goal_met fails safe: when the judgment call fails or its     *)
(* response cannot be parsed, it returns goal_met false, confidence 0.0    *)
(* and the failure text as reasoning without raising, and that check       *)
(* neither sets the goal-met flag nor writes a marker.                     *)

C8_FailSafe ==
    [][(JudgmentStep /\ hist'.last_check.response.kind # "ok")
       => /\ hist'.last_check.result =
                 [raised |-> FALSE, goal_met |-> FALSE, confidence |-> 0,
                  reasoning |-> <<"Error during detection: ",
                                  hist'.last_check.response.kind>>]
          /\ monitor'.goal_met = monitor.goal_met
          /\ fs'.marker = fs.marker
          /\ hist'.goal_marker_writes = hist.goal_marker_writes]_vars

\* a check whose response was not JSON returned the not-met result
C8_Witness ==
    /\ hist.last_check.made
    /\ hist.last_check.response.kind = "malformed_json"
    /\ ~hist.last_check.result.raised
    /\ ~hist.last_check.result.goal_met
    /\ hist.last_check.result.confidence = 0
    /\ ~monitor.goal_met

----------------------------------------------------------------------------
(* C11.  In every reachable state of a tracer at most one turn is open: at *)
(* most one turn id has a turn-start event and no turn-end event, and such *)
(* a turn is the tracer's current turn.                                    *)

\* the turns with a recorded turn_start and no recorded turn_end
OpenTurns(tr) ==
    {T \in DOMAIN tr.turn_events :
        /\ "turn_start" \in DOMAIN tr.turn_events[T]
        /\ "turn_end" \notin DOMAIN tr.turn_events[T]}

C11_AtMostOneOpenTurn ==
    /\ Cardinality(OpenTurns(tracer)) <= 1
    /\ \A T \in OpenTurns(tracer) : T = tracer.current_turn_id

----------------------------------------------------------------------------
(* C12.  A turn's end is terminal: after the turn-end event of a turn T,   *)
(* no later event of the event log is attributed to T, also when end_turn  *)
(* runs concurrently with record_* calls.                                  *)

C12_TurnEndTerminal ==
    \A i \in 1..Len(tracer.events) :
        tracer.events[i].event_type = "turn_end" =>
            \A j \in (i + 1)..Len(tracer.events) :
                tracer.events[j].turn_id # tracer.events[i].turn_id

----------------------------------------------------------------------------
(* C13.  Per-turn latency: for each pair (start kind, end kind) the turn's *)
(* latency is the timestamp of the end kind minus the timestamp of the     *)
(* start kind when both are recorded in the turn, and absent, never 0,     *)
(* when either is missing.                                                 *)

\* the latency fields with their start and end kinds
LatencyPairs ==
    {<<"vad_latency", "vad_start", "vad_end">>,
     <<"stt_latency", "stt_start", "stt_end">>,
     <<"llm_latency", "llm_start", "llm_end">>,
     <<"llm_first_token_latency", "llm_start", "llm_first_token">>,
     <<"tts_latency", "tts_start", "tts_end">>,
     <<"tts_first_token_latency", "tts_start", "tts_first_token">>,
     <<"end_to_end_latency", "vad_start", "audio_out_start">>,
     <<"turn_duration", "turn_start", "turn_end">>}

\* the positions of the event log holding an event of this kind in turn T
EventsOf(log, T, kind) ==
    {i \in 1..Len(log) : log[i].turn_id = T /\ log[i].event_type = kind}

\* the timestamp of the last event of this kind recorded in turn T
StampOf(log, T, kind) ==
    log[CHOOSE i \in EventsOf(log, T, kind) :
            \A k \in EventsOf(log, T, kind) : k <= i].timestamp

C13_PerTurnLatency ==
    (summary # NotCalled /\ ~summary.raised) =>
        \A T \in DOMAIN summary.turn_metrics :
            \A p \in LatencyPairs :
                summary.turn_metrics[T][p[1]] =
                    IF /\ EventsOf(tracer.events, T, p[2]) # {}
                       /\ EventsOf(tracer.events, T, p[3]) # {}
                    THEN StampOf(tracer.events, T, p[3])
                         - StampOf(tracer.events, T, p[2])
                    ELSE None

\* a summary with one turn whose generation took 2 ticks and whose speech
\* took 0 ticks, and another turn whose speech end was never recorded
C13_Witness ==
    /\ summary # NotCalled
    /\ ~summary.raised
    /\ \E T \in DOMAIN summary.turn_metrics :
          /\ summary.turn_metrics[T].llm_latency = 2
          /\ summary.turn_metrics[T].llm_first_token_latency = 1
          /\ summary.turn_metrics[T].vad_latency = 0
    /\ \E T \in DOMAIN summary.turn_metrics :
          /\ summary.turn_metrics[T].vad_latency = None
          /\ summary.turn_metrics[T].end_to_end_latency = None

----------------------------------------------------------------------------
(* C14.  Once the poller of a bot process has set the stop flag, that      *)
(* process starts no new turn: no step taken with the flag set records a   *)
(* turn-start event (a turn in flight may still be ended).                 *)

C14_NoNewTurnAfterStop ==
    [][proc.stop_requested =>
          \A i \in (Len(tracer.events) + 1)..Len(tracer'.events) :
              tracer'.events[i].event_type # "turn_start"]_vars

----------------------------------------------------------------------------
(* C15.  If a marker exists at the stop-signal path of a running bot       *)
(* process and the poller keeps being scheduled, the process eventually    *)
(* sets its stop flag, cancels the run loop and executes the finalization  *)
(* sequence (tracing log, then transcript) before it exits.  A run that    *)
(* ends for another reason before the poller wakes must execute the same   *)
(* finalization sequence.                                                  *)

C15_MarkerLeadsToFinalization ==
    (fs.marker[OwnStopPath].exists /\ proc.pc = "running")
        ~> /\ proc.pc = "exited"
           /\ proc.save_log_called
           /\ proc.transcript_step_reached
           /\ proc.ended_by = "cancelled" =>
                  proc.stop_requested /\ proc.cancel_requested

----------------------------------------------------------------------------
(* C16.  When the stop marker, the goal-met flag and the time limit become *)
(* true in any order or together, the first one the poller detects         *)
(* triggers the stop (the marker before the goal flag before the time      *)
(* limit when several hold at the detection), the others change nothing    *)
(* afterwards, and the finalization sequence runs exactly once: it is      *)
(* entered only from the run loop, and after the exit neither the process  *)
(* nor its log and transcript files change.                                *)

C16_FirstDetectionWins ==
    [][/\ (~proc.stop_requested /\ proc'.stop_requested)
          => /\ proc'.cancel_requested
             /\ proc'.stop_reason =
                    IF fs.marker[OwnStopPath].exists THEN "marker"
                    ELSE IF monitor.goal_met THEN "goal_met"
                    ELSE "timeout"
             /\ fs.marker[OwnStopPath].exists \/ monitor.goal_met
                    \/ proc.time_up
       /\ proc.stop_requested
          => /\ proc'.stop_requested
             /\ proc'.cancel_requested
             /\ proc'.stop_reason = proc.stop_reason
       /\ (proc'.save_log_called /\ ~proc.save_log_called)
          => proc.pc = "running" /\ proc'.pc = "exited"
       /\ (proc'.pc = "exited" /\ proc.pc # "exited")
          => proc'.save_log_called
       /\ proc.pc = "exited"
          => /\ proc' = proc
             /\ summary' = summary
             /\ fs'.tracing_log = fs.tracing_log
             /\ fs'.transcript_txt = fs.transcript_txt
             /\ fs'.transcript_json = fs.transcript_json]_vars

\* the poller stopped the run for the time limit, the marker and the goal
\* flag came afterwards, and the process has gone through its finalization
C16_Witness ==
    /\ proc.stop_requested
    /\ proc.stop_reason = "timeout"
    /\ fs.marker[OwnStopPath].exists
    /\ monitor.goal_met
    /\ proc.time_up
    /\ proc.pc = "exited"
    /\ proc.save_log_called

(* C17: the conversation of the unified transcript is in ascending order   *)
(* of timestamp, and the sort is stable: of two entries with the same      *)
(* timestamp, those of one source keep the order they had in that source   *)
(* and an entry of the first source comes before one of the second.        *)
(* Under SpecMerge.                                                        *)

C17_SortedStable ==
    fs.unified.exists =>
        LET conv == fs.unified.conversation
        IN  \A i, j \in 1..Len(conv) :
                i < j =>
                    /\ conv[i].timestamp <= conv[j].timestamp
                    /\ conv[i].timestamp = conv[j].timestamp =>
                           IF conv[i].bot = conv[j].bot
                           THEN conv[i].message < conv[j].message
                           ELSE conv[i].bot = fs.unified.bot1_name

\* the first source has entries at 0 and 2, the second at 1, and the merge
\* interleaves them
C17_Witness ==
    /\ fs.unified.exists
    /\ [i \in 1..Len(fs.transcript_json["bot1"].entries) |->
           fs.transcript_json["bot1"].entries[i].timestamp] = <<0, 2>>
    /\ [i \in 1..Len(fs.transcript_json["bot2"].entries) |->
           fs.transcript_json["bot2"].entries[i].timestamp] = <<1>>
    /\ [i \in 1..Len(fs.unified.conversation) |->
           <<fs.unified.conversation[i].bot,
             fs.unified.conversation[i].timestamp>>]
       = <<<<"Ira", 0>>, <<"Chetan", 1>>, <<"Ira", 2>>>>

(* C18: the conversation of the unified transcript is exactly the union of *)
(* the two sources: every entry of either source is in it exactly once,    *)
(* with its timestamp, speaker and type, and nothing else is; total_turns  *)
(* is the sum of the two entry counts, start_time the earlier of the two   *)
(* start times and end_time the later of the two end times.                *)
(* Under SpecMerge.                                                        *)

\* the positions of the conversation that hold entry i of source data
PositionsOf(conv, data, i) ==
    {k \in 1..Len(conv) :
        /\ conv[k].bot = data.bot_name
        /\ conv[k].message = data.entries[i].text
        /\ conv[k].timestamp = data.entries[i].timestamp
        /\ conv[k].speaker = data.entries[i].speaker
        /\ conv[k].type = data.entries[i].type}

C18_ExactUnion ==
    fs.unified.exists =>
        LET conv == fs.unified.conversation
            bot1_data == fs.transcript_json["bot1"]
            bot2_data == fs.transcript_json["bot2"]
        IN  /\ Len(conv) = Len(bot1_data.entries) + Len(bot2_data.entries)
            /\ \A data \in {bot1_data, bot2_data} :
                   \A i \in 1..Len(data.entries) :
                       Cardinality(PositionsOf(conv, data, i)) = 1
            /\ fs.unified.total_turns
                   = Len(bot1_data.entries) + Len(bot2_data.entries)
            /\ fs.unified.start_time \in {bot1_data.start_time,
                                          bot2_data.start_time}
            /\ fs.unified.start_time <= bot1_data.start_time
            /\ fs.unified.start_time <= bot2_data.start_time
            /\ fs.unified.end_time \in {bot1_data.end_time,
                                        bot2_data.end_time}
            /\ fs.unified.end_time >= bot1_data.end_time
            /\ fs.unified.end_time >= bot2_data.end_time

\* a merge of two sources of two entries each, one of them an initial
\* trigger, where the second source started earlier and the first one ended
\* later
C18_Witness ==
    /\ fs.unified.exists
    /\ fs.unified.total_turns = 4
    /\ Len(fs.transcript_json["bot1"].entries) = 2
    /\ fs.transcript_json["bot1"].entries[1].type = "initial_trigger"
    /\ fs.transcript_json["bot2"].start_time
           < fs.transcript_json["bot1"].start_time
    /\ fs.transcript_json["bot2"].end_time
           < fs.transcript_json["bot1"].end_time
    /\ fs.unified.start_time = fs.transcript_json["bot2"].start_time
    /\ fs.unified.end_time = fs.transcript_json["bot1"].end_time

(* C19: the merge is idempotent and deterministic: run again on the same   *)
(* source files after it has succeeded, generate_unified_transcript        *)
(* returns the same result and leaves the unified and the simplified       *)
(* artifact exactly as the first run wrote them.  Under SpecMerge.         *)

C19_MergeIdempotent ==
    [][(operator.merge.ran /\ operator.merge.success
        /\ operator'.merges = operator.merges + 1)
       => /\ fs'.unified = fs.unified
          /\ fs'.simplified = fs.simplified
          /\ operator'.merge = operator.merge]_vars

\* the merge has run twice on two sources and has written a conversation
\* and a simplified transcript
C19_Witness ==
    /\ operator.merges = 2
    /\ operator.merge.ran
    /\ operator.merge.success
    /\ fs.unified.exists
    /\ fs.simplified.exists
    /\ Len(fs.unified.conversation) >= 2
    /\ Len(fs.simplified.messages) >= 1

(* C20: when the merge has run with a source transcript that is missing or *)
(* cannot be loaded, it has returned failure, its message names a source   *)
(* that was unavailable, and neither the unified nor the simplified        *)
(* artifact has been written.  Under SpecMerge.                            *)

\* the sources the merge cannot load
Unavailable(f) ==
    {b \in {"bot1", "bot2"} :
        ~f.transcript_json[b].exists \/ ~f.transcript_json[b].readable}

\* whether the message has the piece of text
Mentions(message, text) == \E i \in 1..Len(message) : message[i] = text

C20_FailsClosedNamingSource ==
    (operator.merge.ran /\ Unavailable(fs) # {}) =>
        /\ ~operator.merge.success
        /\ ~fs.unified.exists
        /\ ~fs.simplified.exists
        /\ \E b \in Unavailable(fs) :
               Mentions(operator.merge.message, TranscriptPath(b))

\* the part of C20 the code keeps: failure, and nothing written
C20_FailsClosed ==
    (operator.merge.ran /\ Unavailable(fs) # {}) =>
        /\ ~operator.merge.success
        /\ ~fs.unified.exists
        /\ ~fs.simplified.exists

(* C21: the simplified transcript holds, in the order of the merged        *)
(* conversation, exactly the merged entries of type transcription,         *)
(* response or message, each as a bot label and a message; the label is    *)
(* "Bot 1" for every entry that came from the first source and "Bot 2" for *)
(* every entry that came from the second.  Under SpecMerge.                *)

\* whether the merged entry came from the first source
FromFirstSource(e) ==
    \E i \in 1..Len(fs.transcript_json["bot1"].entries) :
        LET src == fs.transcript_json["bot1"].entries[i]
        IN  /\ e.bot = fs.transcript_json["bot1"].bot_name
            /\ e.message = src.text
            /\ e.timestamp = src.timestamp
            /\ e.type = src.type

C21_SimplifiedProjection ==
    /\ fs.simplified.exists <=> fs.unified.exists
    /\ fs.simplified.exists =>
        LET kept == SelectSeq(fs.unified.conversation,
                        LAMBDA e : e.type \in {"transcription", "response",
                                               "message"})
        IN  fs.simplified.messages =
                [k \in 1..Len(kept) |->
                    [bot |-> IF FromFirstSource(kept[k]) THEN "Bot 1"
                             ELSE "Bot 2",
                     message |-> kept[k].message]]

\* a merge where a trigger entry was dropped and the messages of both
\* sources, a transcription among them, alternate in the simplified
\* transcript
C21_Witness ==
    /\ fs.simplified.exists
    /\ Len(fs.simplified.messages) < Len(fs.unified.conversation)
    /\ \E k \in 1..Len(fs.unified.conversation) :
           fs.unified.conversation[k].type = "transcription"
    /\ [k \in 1..Len(fs.simplified.messages) |->
           fs.simplified.messages[k].bot] = <<"Bot 2", "Bot 1", "Bot 2">>

(* C22: the merge reads the transcripts only after both bot processes have *)
(* ended: every run of generate_unified_transcript that opens a transcript *)
(* file, the one stop_simulation makes included, happens when neither      *)
(* process is still running or still writing its transcript.               *)
(* Under SpecSession.                                                      *)

\* generate_unified_transcript opens the transcripts when both files exist
MergeOpensTranscripts ==
    /\ operator'.merges = operator.merges + 1
    /\ fs.transcript_json["bot1"].exists
    /\ fs.transcript_json["bot2"].exists

C22_MergeAfterBothEnded ==
    [][MergeOpensTranscripts => (proc.pc = "exited" /\ peer.pc = "exited")]_vars

(* C23: evaluate_conversation returns a result for every response text.    *)
(* When the text from its first opening brace to its last closing brace    *)
(* is a JSON document, the result is that document; when there is no such  *)
(* text or it is no JSON document, the score is absent and the reasoning   *)
(* is the raw response.  Under SpecScoring.                                *)

\* the positions of a piece in a response
PositionsOfPiece(response, piece) ==
    {i \in 1..Len(response) : response[i] = piece}

\* the text from the first opening to the last closing brace, <<>> if the
\* response has no opening brace followed by a closing one
BracedPart(response) ==
    LET opens == PositionsOfPiece(response, LBrace)
        closes == PositionsOfPiece(response, RBrace)
    IN  IF \E i \in opens, j \in closes : i < j
        THEN SubSeq(response,
                    CHOOSE i \in opens : \A k \in opens : i <= k,
                    CHOOSE j \in closes : \A k \in closes : j >= k)
        ELSE <<>>

C23_ScoringResponseParsed ==
    judge.pc = "scored" =>
        LET document == JsonLoads(BracedPart(judge.response))
        IN  IF document.decode_error
            THEN /\ judge.result.score = NoScore
                 /\ judge.result.reasoning = judge.response
            ELSE /\ judge.result.score = document.score
                 /\ judge.result.reasoning = document.reasoning

\* a response whose braces enclose prose, answered with an absent score and
\* the raw response
C23_Witness ==
    /\ judge.pc = "scored"
    /\ judge.response = <<LBrace, Prose, RBrace>>
    /\ judge.result.score = NoScore
    /\ judge.result.reasoning = judge.response

(* C24: a failure of a judgment-service call while a criterion is          *)
(* evaluated is recovered: every step of the loop over the criteria adds a *)
(* result for its criterion (with an absent score when the call failed)    *)
(* and leaves the evaluation going.  Under SpecJudge.                      *)

C24_CallFailureRecovered ==
    [][(/\ judge.pc = "evaluating"
        /\ Len(judge.criteria_evaluations) < Len(judge.criteria))
       => /\ judge'.pc = "evaluating"
          /\ Len(judge'.criteria_evaluations)
                 = Len(judge.criteria_evaluations) + 1]_vars

(* C25: an evaluation with no criteria, with an empty conversation or with *)
(* a missing simplified transcript never completes and never writes an     *)
(* evaluation artifact: evaluate_simulation ends it with a failure.        *)
(* Under SpecJudge, where evaluate_simulation is entered directly, as      *)
(* evaluate_simulation_simple enters it.                                   *)

C25_NoArtifactWithoutInput ==
    (judge.criteria = <<>> \/ judge.transcript \in {"empty", "missing"})
        => /\ judge.pc # "done"
           /\ judge.artifact \in {NoArtifact, PreviousArtifact}

(* C26: both processes poll the same stop-signal location: when the poller *)
(* of one process has stopped its run for a goal_met marker, that marker   *)
(* is also at the location the poller of the other process reads.          *)
(* Under SpecSession.                                                      *)

\* the poller of a process stopped it for a goal_met marker at its path
StoppedByGoalMarker(process, path) ==
    /\ process.stop_requested
    /\ process.stop_reason = "marker"
    /\ fs.marker[path].exists
    /\ fs.marker[path].reason = "goal_met"

C26_MarkerSeenByBothPollers ==
    /\ StoppedByGoalMarker(proc, OwnStopPath)
           => fs.marker[PeerStopPath].exists
    /\ StoppedByGoalMarker(peer, PeerStopPath)
           => fs.marker[OwnStopPath].exists

(* C27: every stop marker in the simulation folder, written by the         *)
(* operator's stop or by a goal monitor, holds a reason that is            *)
(* user_requested, goal_met or timeout, and a timestamp.  Under SpecBot.   *)

C27_MarkerHasReasonAndTimestamp ==
    \A p \in StopPaths :
        fs.marker[p].exists =>
            /\ "reason" \in DOMAIN fs.marker[p]
            /\ fs.marker[p].reason \in {"user_requested", "goal_met",
                                        "timeout"}
            /\ "timestamp" \in DOMAIN fs.marker[p]

(* C28: the judgment call of the goal monitor does not hold back frames:   *)
(* a frame whose handling has made the call is pushed downstream whether   *)
(* or not the call ever returns.  Under SpecFramesFair.                    *)

C28_FrameForwardedWithoutWaiting ==
    (handler.pc = "checking") ~> (handler.pc = "idle")

(* C29: a stop marker is a no-op for everything but the poller of a        *)
(* running process: a process that has exited stays as it is, the          *)
(* operator's stop always completes, and every merge, the one of the stop  *)
(* included, gives the result and the artifacts it would give with no      *)
(* marker in the folder.  Under SpecSession.                               *)

\* the folder without its stop markers
WithoutMarkers(f) == [f EXCEPT !.marker = [p \in StopPaths |-> NoFile]]

C29_LateMarkerIsNoOp ==
    [][/\ proc.pc = "exited" => proc' = proc
       /\ peer.pc = "exited" => peer' = peer
       /\ (operator.simulation_running /\ ~operator'.simulation_running)
              => operator'.merges = operator.merges + 1
       /\ operator'.merges = operator.merges + 1 =>
              LET unmarked == GenerateUnifiedTranscript(WithoutMarkers(fs))
              IN  /\ operator'.merge.ran
                  /\ operator'.merge.success = unmarked.success
                  /\ operator'.merge.message = unmarked.message
                  /\ fs'.unified = unmarked.fs.unified
                  /\ fs'.simplified = unmarked.fs.simplified]_vars

\* the operator's stop has written both markers and merged successfully in
\* the same call: both transcripts were there, so both processes had
\* exited, for the time limit, before their markers were created
C29_Witness ==
    /\ ~operator.simulation_running
    /\ operator.merges = 1
    /\ operator.merge.success
    /\ \A p \in StopPaths :
           fs.marker[p].exists /\ fs.marker[p].reason = "user_requested"
    /\ proc.pc = "exited" /\ proc.stop_reason = "timeout"
    /\ peer.pc = "exited" /\ peer.stop_reason = "timeout"
    /\ fs.unified.exists

(* C30: every score stored in a per-criterion result of an evaluation is a *)
(* number from 0 to 10, a boolean, or absent, whatever the judgment        *)
(* service answered.  Under SpecJudge.                                     *)

\* a number in [0, 10], a boolean, or None
IsValidScore(score) ==
    \/ score = NoScore
    \/ score.kind = "bool"
    \/ score.kind = "int" /\ score.val >= 0 /\ score.val <= 10

C30_StoredScoreInRange ==
    \A i \in 1..Len(judge.criteria_evaluations) :
        IsValidScore(judge.criteria_evaluations[i])

(* C31: the evaluation artifact is written all or nothing: what is at      *)
(* output_path changes only in the step that ends a run after every        *)
(* criterion has been evaluated, and then holds one result per criterion   *)
(* and the summary; a run that fails leaves there what was there before,   *)
(* nothing or the artifact of an earlier run.  Under SpecJudge.            *)

C31_ArtifactAllOrNothing ==
    [][/\ judge'.artifact # judge.artifact =>
              /\ judge.pc = "evaluating"
              /\ judge'.pc = "done"
              /\ Len(judge.criteria_evaluations) = Len(judge.criteria)
              /\ judge'.artifact.criteria_evaluations
                     = judge.criteria_evaluations
              /\ Len(judge'.artifact.criteria_evaluations)
                     = Len(judge.criteria)
              /\ judge'.artifact.summary
                     = JudgeSummary(judge.criteria,
                                    judge.criteria_evaluations)
       /\ judge'.pc = "raised" => judge'.artifact = judge.artifact]_vars

\* a run that failed at its second criterion, with the artifact of the
\* earlier run still in place
C31_Witness ==
    /\ judge.pc = "raised"
    /\ Len(judge.criteria) >= 2
    /\ Len(judge.criteria_evaluations) = 1
    /\ judge.artifact = PreviousArtifact

(* C35: evaluate_simulation takes the criteria in input order and makes    *)
(* two judgment calls for each, the synthesis of the steps and then the    *)
(* scoring: the calls made so far are, in order, steps and scoring of      *)
(* criterion 1, of criterion 2, and so on, two for every stored result;    *)
(* a completed run holds one result per criterion and total_criteria is    *)
(* the number of criteria.  Under SpecJudge.                               *)

\* the k-th judgment call of a run
ExpectedCall(k) ==
    IF k % 2 = 1 THEN StepsCall((k + 1) \div 2) ELSE ScoringCall(k \div 2)

C35_TwoCallsPerCriterionInOrder ==
    /\ \A k \in 1..Len(judge.calls) : judge.calls[k] = ExpectedCall(k)
    /\ judge.pc \in {"evaluating", "done"} =>
           Len(judge.calls) = 2 * Len(judge.criteria_evaluations)
    /\ judge.pc = "done" =>
           /\ Len(judge.criteria_evaluations) = Len(judge.criteria)
           /\ judge.artifact.criteria_evaluations
                  = judge.criteria_evaluations
           /\ judge.summary.total_criteria = Len(judge.criteria)

\* a completed run over three criteria
C35_Witness ==
    /\ judge.pc = "done"
    /\ judge.criteria = <<"scale", "boolean", "scale">>
    /\ Len(judge.calls) = 6
    /\ judge.summary.total_criteria = 3

(* C32: a summary counts a turn, in turn_metrics and in total_turns, only  *)
(* if both the start and the end of the turn are recorded: a turn that a   *)
(* record_* call opened and end_turn ended, and a started turn that was    *)
(* not ended, are left out.  Under SpecImplicit.                           *)

\* the turns with a turn_start and a turn_end event
StartedAndEnded(tr) ==
    {T \in DOMAIN tr.turn_events :
        /\ "turn_start" \in DOMAIN tr.turn_events[T]
        /\ "turn_end" \in DOMAIN tr.turn_events[T]}

C32_SummaryCountsStartedAndEnded ==
    (summary # NotCalled /\ ~summary.raised) =>
        /\ DOMAIN summary.turn_metrics = StartedAndEnded(tracer)
        /\ summary.total_turns = Cardinality(StartedAndEnded(tracer))

(* C33: a record_* call made while no turn is open opens one: after it the *)
(* tracer has a current turn, a new one, and the event belongs to it; a    *)
(* record_* call made while a turn is open leaves that turn current and    *)
(* its event belongs to it.  So the calls that follow an implicit opening  *)
(* stay in the opened turn until end_turn or start_turn.  Under            *)
(* SpecTracer.                                                             *)

\* the step appended exactly one event, and it is no turn_start or turn_end
IsRecordStep ==
    /\ Len(tracer'.events) = Len(tracer.events) + 1
    /\ tracer'.events[Len(tracer'.events)].event_type
           \notin {"turn_start", "turn_end"}

C33_RecordOpensTurnImplicitly ==
    [][IsRecordStep =>
          LET event == tracer'.events[Len(tracer'.events)]
          IN  /\ tracer'.current_turn_id # NoTurn
              /\ event.turn_id = tracer'.current_turn_id
              /\ tracer.current_turn_id # NoTurn =>
                     tracer'.current_turn_id = tracer.current_turn_id
              /\ tracer.current_turn_id = NoTurn =>
                     tracer'.current_turn_id \notin DOMAIN tracer.turn_events
      ]_vars

\* a turn opened by a record_* call is current and holds two events
C33_Witness ==
    /\ tracer.current_turn_id # NoTurn
    /\ "turn_start" \notin DOMAIN tracer.turn_events[tracer.current_turn_id]
    /\ Cardinality({k \in 1..Len(tracer.events) :
           tracer.events[k].turn_id = tracer.current_turn_id}) >= 2

(* C34: when an event kind is recorded more than once in a turn, the       *)
(* turn's mapping holds one timestamp for the kind, that of the latest     *)
(* such event, and the turn's latencies are computed from it; the event    *)
(* log keeps every event.  Under SpecTracer.                               *)

\* the positions in the log of the events of a kind in a turn
LogPositions(tr, turn_id, event_type) ==
    {k \in 1..Len(tr.events) :
        /\ tr.events[k].turn_id = turn_id
        /\ tr.events[k].event_type = event_type}

SetMax(S) == CHOOSE x \in S : \A y \in S : y <= x

\* the timestamp of the latest event of a kind in a turn, None without one
LastTimestamp(tr, turn_id, event_type) ==
    LET positions == LogPositions(tr, turn_id, event_type)
    IN  IF positions = {} THEN None
        ELSE tr.events[SetMax(positions)].timestamp

\* the mapping of turn T holds, for each kind in the log, the timestamp
\* of the latest event, and the LLM latency is computed from those
TurnHoldsLatest(tr, T) ==
    /\ \A kind \in DOMAIN tr.turn_events[T] :
          tr.turn_events[T][kind] = LastTimestamp(tr, T, kind)
    /\ \A k \in 1..Len(tr.events) :
          tr.events[k].turn_id = T =>
              tr.events[k].event_type \in DOMAIN tr.turn_events[T]
    /\ LET llm_start == LastTimestamp(tr, T, "llm_start")
           llm_end == LastTimestamp(tr, T, "llm_end")
       IN  CalculateTurnMetrics(tr, T).llm_latency =
               IF llm_start # None /\ llm_end # None
               THEN llm_end - llm_start ELSE None

\* the turns whose events or mapping the step changed
TouchedTurns ==
    {tracer'.events[k].turn_id :
        k \in (Len(tracer.events) + 1)..Len(tracer'.events)}
    \cup {T \in DOMAIN tracer'.turn_events :
             \/ T \notin DOMAIN tracer.turn_events
             \/ tracer'.turn_events[T] # tracer.turn_events[T]}

C34_MappingKeepsLaterTimestamp ==
    [][/\ Len(tracer'.events) >= Len(tracer.events)
       /\ SubSeq(tracer'.events, 1, Len(tracer.events)) = tracer.events
       /\ DOMAIN tracer.turn_events \subseteq DOMAIN tracer'.turn_events
       /\ \A T \in TouchedTurns :
             /\ T \in DOMAIN tracer'.turn_events
             /\ TurnHoldsLatest(tracer', T)]_vars

\* llm_start was recorded at 0 and at 1 in the current turn: both events
\* are in the log, the mapping holds 1
C34_Witness ==
    /\ tracer.current_turn_id # NoTurn
    /\ Cardinality(LogPositions(tracer, tracer.current_turn_id,
                                "llm_start")) = 2
    /\ \E k \in LogPositions(tracer, tracer.current_turn_id, "llm_start") :
          tracer.events[k].timestamp = 0
    /\ tracer.turn_events[tracer.current_turn_id]["llm_start"] = 1
    /\ "llm_end" \in DOMAIN tracer.turn_events[tracer.current_turn_id]
    /\ CalculateTurnMetrics(tracer, tracer.current_turn_id).llm_latency = 0

(* C36: get_summary returns a summary, raising nothing, in every state of  *)
(* the tracer; when a turn is completed and no completed turn holds some   *)
(* latency kind, the mean of that kind is absent.  Under SpecSummary.      *)

\* no completed turn holds a truthy latency of the kind
KindInNoCompletedTurn(tr, kind) ==
    \A T \in CompletedTurns(tr) : ~Truthy(CalculateTurnMetrics(tr, T)[kind])

C36_GetSummaryNeverRaises ==
    summary # NotCalled =>
        /\ ~summary.raised
        /\ \A kind \in AveragedLatencies :
              (CompletedTurns(tracer) # {}
               /\ KindInNoCompletedTurn(tracer, kind)) =>
                  summary.average_latencies[kind] = None

(* C37: once a bot process that was given a transcript path has run the    *)
(* transcript step of its finalization, its transcript file exists, with   *)
(* the entries recorded (none when nothing was recorded).  Under SpecBot.  *)

C37_TranscriptFileAfterFinalization ==
    (proc.pc = "exited" /\ proc.transcript_step_reached) =>
        /\ fs.transcript_json["bot1"].exists
        /\ fs.transcript_json["bot1"].entries = transcript

(* C38: when record_*, start_turn and end_turn calls of several threads    *)
(* interleave, each pass through the body of _record_event appends exactly *)
(* one event to the log and nothing else changes the log, and after it the *)
(* mapping of the event's turn holds, for every kind, the timestamp of the *)
(* latest event of that kind and turn in the log.  Under SpecThreads.      *)

\* a thread leaves the locked body of _record_event in this step
BodyCompletes ==
    \E t \in Threads :
        threads[t].pc = "rec_body" /\ threads'[t].pc # "rec_body"

C38_OneEventPerConcurrentCall ==
    [][/\ SubSeq(tracer'.events, 1, Len(tracer.events)) = tracer.events
       /\ IF BodyCompletes
          THEN Len(tracer'.events) = Len(tracer.events) + 1
          ELSE tracer'.events = tracer.events
       /\ DOMAIN tracer.turn_events \subseteq DOMAIN tracer'.turn_events
       /\ \A T \in TouchedTurns :
             /\ T \in DOMAIN tracer'.turn_events
             /\ TurnHoldsLatest(tracer', T)]_vars

\* two threads are inside record_llm_start at once, one in the locked body
\* and one waiting for the lock, after an llm_start of the same turn was
\* logged at an earlier time
C38_Witness ==
    \E t1, t2 \in Threads :
        /\ t1 # t2
        /\ lock = t1
        /\ threads[t1].pc = "rec_body"
        /\ threads[t1].op = "record"
        /\ threads[t1].event_type = "llm_start"
        /\ threads[t2].pc = "rec_lock"
        /\ threads[t2].op = "record"
        /\ LogPositions(tracer, threads[t1].turn_id, "llm_start") # {}
        /\ tracer.turn_events[threads[t1].turn_id]["llm_start"] < now

(* C39: once start_turn has returned a turn T, T stays the current turn    *)
(* until a later end_turn or start_turn call: an end_turn that was already *)
(* running for the previous turn when start_turn ran does not clear or     *)
(* replace T.  Under SpecThreads.                                          *)

\* start_turn has logged the turn_start of T, its last step
StartTurnReturned(T) ==
    \E k \in 1..Len(tracer.events) :
        /\ tracer.events[k].turn_id = T
        /\ tracer.events[k].event_type = "turn_start"

\* thread t runs the last statement of an end_turn that ended another turn
\* than the current one
StaleEndTurnFinishes(t) ==
    /\ threads[t].pc = "et_clear"
    /\ threads'[t].pc # "et_clear"
    /\ threads[t].turn_id # tracer.current_turn_id

C39_StartedTurnStaysCurrent ==
    [][\A t \in Threads :
          (/\ tracer.current_turn_id # NoTurn
           /\ StartTurnReturned(tracer.current_turn_id)
           /\ StaleEndTurnFinishes(t))
          => tracer'.current_turn_id = tracer.current_turn_id]_vars

(* C40: the two outputs of a merge are written both or neither: after      *)
(* generate_unified_transcript returns success the unified and the         *)
(* simplified transcript exist and hold the same merge, and after it       *)
(* returns a failure neither of them was created or changed.  Under        *)
(* SpecMergeFaults.                                                        *)

C40_MergeOutputsBothOrNeither ==
    [][operator'.merges = operator.merges + 1 =>
          IF operator'.merge.success
          THEN /\ fs'.unified.exists
               /\ fs'.simplified.exists
               /\ fs'.unified # ReadOnlyFile
               /\ fs'.simplified # ReadOnlyFile
               /\ fs'.simplified.messages =
                      Simplify(fs'.unified.conversation,
                               fs'.unified.bot1_name, fs'.unified.bot2_name)
          ELSE /\ fs'.unified = fs.unified
               /\ fs'.simplified = fs.simplified]_vars

====
